---- MODULE Spec2Model ----
(***************************************************************************)
(* A model of preppy (src/preppy.py): the compiled-artifact cache of       *)
(* getModule with its on-disk .pyc persistence, the run-time whitespace    *)
(* controller __wsscontroller__, the lexer and parser of PreppyParser,     *)
(* the quote functions of __get_conv__ and the calls run and get of a      *)
(* compiled template.                                                      *)
(*                                                                         *)
(* Abstractions.                                                           *)
(*  - For the cache a template text is a small natural number; text 0      *)
(*    stands for a template the lexer/parser rejects.                      *)
(*  - For the lexer, the parser and the execution a template text is a     *)
(*    sequence of atoms: the delimiters, a blank, a line feed, keywords,   *)
(*    punctuation and fragments of Python.  The text is a str, never       *)
(*    bytes.                                                               *)
(*  - A value of the template's code is a record of its Python type and    *)
(*    its content; a piece of output is the quote function applied and     *)
(*    the value it was applied to.                                         *)
(*  - md5 is idealised as collision free: getMd5 is an injective code of   *)
(*    the pair (text, VERSION).                                            *)
(*  - A .pyc file is a sequence of cells: <<"w", v>> is a 4-byte           *)
(*    little-endian word of value v, <<"b", cs, i>> is the i-th chunk of   *)
(*    the marshalled code object of the template with checksum cs.         *)
(*    Bytes never written (holes left by a truncation) read as zero words. *)
(*  - One directory; the source of name n is n.prep, its artifact n.pyc.   *)
(***************************************************************************)
EXTENDS Integers, Sequences, FiniteSets, TLC

\* ---------------------------------------------------------------- bounds
MaxText == 2
MaxTime == 2
MaxVersion == 2
MaxLen == 5
MaxLexChunks == 4
MaxConstructs == 2
MaxIterations == 3
MaxKeys == 2
MaxArgs == 2
MaxDepth == 2
MaxClauses == 3

\* ------------------------------------------------------ program constants
MAGIC_NUMBER == 3495
ForeignMagic == 62211
NoChecksum == 0
Inf == 2147483647

Names == {"a"}
Texts == 0..MaxText
Flags == {0, 1}
Callers == {1, 2}

VARIABLES
    isPy37,          \* host runtime is Python >= 3.7 (pyc header has a flags word)
    VERSION,         \* the compiler's VERSION string
    compilerMtime,   \* when the compiler (preppy.py, or the source preppy.pyc was
                     \* built from) was last modified
    preppyTime,      \* module-level preppyTime, evaluated once at import
    now,             \* int(time.time())
    src,             \* src[n]: <<>> when n.prep is missing, <<t>> when it holds text t
    pyc,             \* pyc[n]: [exists, data] the file n.pyc
    FILE_MODULES,    \* in-memory cache, by source file name
    SOURCE_MODULES,  \* in-memory cache, by source text
    last,            \* the getModule call that has just returned: its arguments and
                     \* what it did (NoCall when the latest step was not a call)
    caller,          \* caller[c]: where concurrent caller c is inside getModule,
                     \* its locals and its file object's buffer and position
    ws,              \* __wsscontroller__.ws
    wsCall,          \* the controller method that has just run: its name, its
                     \* argument and what it returned or raised
    source,          \* PreppyParser.source: the template text, a sequence of atoms
    P,               \* the PreppyParser object: how far compile() has come, its
                     \* _tokens, _defSeen, the statement tree or the error raised
    ran              \* the call of run()/get() on the compiled template that has
                     \* just returned: its arguments, what was written, what it
                     \* returned or raised

cacheVars == <<isPy37, VERSION, compilerMtime, preppyTime, now, src, pyc, FILE_MODULES, SOURCE_MODULES, last>>

wsVars == <<ws, wsCall>>

tplVars == <<source, P, ran>>

vars == <<isPy37, VERSION, compilerMtime, preppyTime, now, src, pyc, FILE_MODULES,
          SOURCE_MODULES, last, caller, ws, wsCall, source, P, ran>>

\* ------------------------------------------------------------ file cells
Word(v) == <<"w", v>>
ZeroWord == Word(0)

IsWord(c) == c[1] = "w"

Max(a, b) == IF a >= b THEN a ELSE b

Min(a, b) == IF a <= b THEN a ELSE b

\* f.seek(pos); f.write(cells) on a file holding data
WriteAt(data, pos, cells) ==
    [i \in 1..Max(Len(data), pos + Len(cells)) |->
        IF i > pos /\ i <= pos + Len(cells) THEN cells[i - pos]
        ELSE IF i <= Len(data) THEN data[i]
        ELSE ZeroWord]

NoFile == [exists |-> FALSE, data |-> <<>>]

\* -------------------------------------------------------------- checksum
Radix == MaxVersion + 1

\* md5(asUtf8(s)+asUtf8(VERSION)).hexdigest()
Md5(s, v) == (s + 1) * Radix + v

\* a checksum salted with the build time as well
getMd5_timed(s) == Md5(s + (MaxText + 1) * (now - 1), VERSION)

getMd5(s) == Md5(s, VERSION)

TextOf(cs) == (cs \div Radix) - 1

VersionOf(cs) == cs % Radix

\* the marshalled code object of a template, as chunks; longer templates
\* marshal to more chunks
BodyLen(cs) == 1 + TextOf(cs)

Body(cs) == [i \in 1..BodyLen(cs) |-> <<"b", cs, i>>]

\* st_size of the source / len(sourcetext)
SizeOf(t) == t

\* PreppyParser(...).compile(0) raises on this text
Malformed(t) == t = 0

\* ---------------------------------------------------------------- modules
NoModule == [name |-> "", checksum |-> NoChecksum]

NewModule(n, cs) == [name |-> n, checksum |-> cs]

\* ----------------------------------------------------- writing the .pyc
\* the bytes written before the magic number: the placeholder, the flags
\* word on Python >= 3.7, the timestamp, the source size, the code
HeaderLen == IF isPy37 THEN 4 ELSE 3

\* lines 1287-1295
HeaderStream(ts, size) ==
    <<ZeroWord>> \o (IF isPy37 THEN <<ZeroWord>> ELSE <<>>) \o <<Word(ts), Word(size)>>

\* lines 1287-1296
PycStream(ts, size, cs) == HeaderStream(ts, size) \o Body(cs)

\* the complete file a rebuild leaves behind
PycImage(ts, size, cs) ==
    WriteAt(PycStream(ts, size, cs), 0, <<Word(MAGIC_NUMBER)>>)

\* ----------------------------------------------------- loading the .pyc
\* a loader that does not compare the magic number
ClassifyOk_anyTag(data) ==
    /\ Len(data) >= HeaderLen
    /\ IsWord(data[1])
    /\ isPy37 => (IsWord(data[2]) /\ data[2][2] \in 0..3)

\* the loader's header validation
ClassifyOk(data) ==
    /\ Len(data) >= 1
    /\ data[1] = Word(MAGIC_NUMBER)
    /\ Len(data) >= HeaderLen
    /\ isPy37 => (IsWord(data[2]) /\ data[2][2] \in 0..3)

\* marshal.loads of what follows the header: one complete code object,
\* bytes after it are ignored
UnmarshalOk(data) ==
    LET b == SubSeq(data, HeaderLen + 1, Len(data)) IN
    /\ Len(b) >= 1
    /\ b[1][1] = "b"
    /\ b[1][3] = 1
    /\ Len(b) >= BodyLen(b[1][2])
    /\ \A i \in 1..BodyLen(b[1][2]) : b[i] = <<"b", b[1][2], i>>

LoadOk(f) == f.exists /\ ClassifyOk(f.data) /\ UnmarshalOk(f.data)

\* __rl_get_module__: the module object executing n.pyc gives
LoadedModule(n, f) == NewModule(n, f.data[HeaderLen + 1][2])

\* f.seek(4); struct.unpack('<L', f.read(4))[0], Inf on any failure
getTimeStamp(f) ==
    IF f.exists /\ Len(f.data) >= 2 /\ IsWord(f.data[2])
    THEN f.data[2][2]
    ELSE Inf

\* rl_get_module as getModule uses it: the module, or NoModule when the
\* load raises or the timestamp read is older than preppyTime
rl_get_module(n) ==
    IF ~LoadOk(pyc[n]) THEN NoModule
    ELSE IF getTimeStamp(pyc[n]) < preppyTime THEN NoModule
    ELSE LoadedModule(n, pyc[n])

\* the module-level preppyTime(): the mtime of preppy.py, the word at
\* offset 4 of preppy.pyc, or Inf when preppy cannot be imported
preppyTimeOf(kind, mtime) ==
    CASE kind = "py" -> mtime
      [] kind = "pyc" -> IF isPy37 THEN 0 ELSE mtime
      [] OTHER -> Inf

CompilerKinds == {"py", "pyc", "none"}

\* ------------------------------------------------------------------ Init
\* os.path.join(dir, name+source_extension)
SourceFileName(n) == <<n, ".prep">>

\* ValueError("couldn't find source %s or module %s" % (sourcefilename, name))
NoSourceError(n) == <<"ValueError", SourceFileName(n), n>>

\* what PreppyParser raises on a template it rejects
CompileError(n) == <<"SyntaxError", SourceFileName(n)>>

NoCall == [kind |-> "none", name |-> "", sourcetext |-> <<>>, force |-> 0,
           importModule |-> 0, outcome |-> "none",
           ret |-> NoModule, err |-> <<>>]

InitCache ==
    /\ isPy37 \in BOOLEAN
    /\ VERSION = 1
    /\ now = 1
    /\ compilerMtime = 1
    /\ \E kind \in CompilerKinds : preppyTime = preppyTimeOf(kind, 1)
    /\ src = [n \in Names |-> <<>>]
    /\ pyc = [n \in Names |-> NoFile]
    /\ FILE_MODULES = [n \in Names |-> NoModule]
    /\ SOURCE_MODULES = [t \in Texts |-> NoModule]
    /\ last = NoCall

IdleCaller == [pc |-> "idle", name |-> "", t |-> 0, buf |-> <<>>, pos |-> 0]

InitCallers == caller = [c \in Callers |-> IdleCaller]

InitWs ==
    /\ ws = 0
    /\ wsCall = [op |-> "__init__", was |-> 0, arg |-> <<>>, raised |-> FALSE, ret |-> <<>>]

\* no template is being compiled or run
NoParser == [phase |-> "none", _tokens |-> <<>>, _defSeen |-> 0, nodes |-> <<>>,
             _fnc_defn |-> <<>>, err |-> <<>>]

NoRun == [kind |-> "none"]

InitNoTemplate ==
    /\ source = <<>>
    /\ P = NoParser
    /\ ran = NoRun

Init == InitCache /\ InitCallers /\ InitWs /\ InitNoTemplate

\* ------------------------------------------------------------- getModule
\* a rebuild that opens the .pyc for writing before it compiles
Rebuild_openFirst(kind, n, t, force, savePyc, importModule) ==
    LET call == [kind |-> kind, name |-> n, sourcetext |-> <<t>>, force |-> force,
                 importModule |-> importModule] IN
    IF Malformed(t)
    THEN /\ last' = call @@ [outcome |-> "compile-error", ret |-> NoModule, err |-> CompileError(n)]
         /\ pyc' = IF savePyc = 1 THEN [pyc EXCEPT ![n] = [exists |-> TRUE, data |-> <<>>]] ELSE pyc
         /\ UNCHANGED <<FILE_MODULES, SOURCE_MODULES>>
    ELSE LET module == NewModule(n, getMd5(t)) IN
         /\ pyc' = IF savePyc = 1
                   THEN [pyc EXCEPT ![n] = [exists |-> TRUE,
                                            data |-> PycImage(now, SizeOf(t), getMd5(t))]]
                   ELSE pyc
         /\ SOURCE_MODULES' = IF importModule = 1 /\ kind = "text"
                              THEN [SOURCE_MODULES EXCEPT ![t] = module]
                              ELSE SOURCE_MODULES
         /\ FILE_MODULES' = IF importModule = 1 /\ kind = "file"
                            THEN [FILE_MODULES EXCEPT ![n] = module]
                            ELSE FILE_MODULES
         /\ last' = call @@ [outcome |-> "rebuilt", ret |-> module, err |-> <<>>]

\* lines 1269-1317: rebuild the module from source
Rebuild(kind, n, t, force, savePyc, importModule) ==
    LET call == [kind |-> kind, name |-> n, sourcetext |-> <<t>>, force |-> force,
                 importModule |-> importModule] IN
    IF Malformed(t)
    THEN /\ last' = call @@ [outcome |-> "compile-error", ret |-> NoModule, err |-> CompileError(n)]
         /\ UNCHANGED <<pyc, FILE_MODULES, SOURCE_MODULES>>
    ELSE LET module == NewModule(n, getMd5(t)) IN
         /\ pyc' = IF savePyc = 1
                   THEN [pyc EXCEPT ![n] = [exists |-> TRUE,
                                            data |-> PycImage(now, SizeOf(t), getMd5(t))]]
                   ELSE pyc
         /\ SOURCE_MODULES' = IF importModule = 1 /\ kind = "text"
                              THEN [SOURCE_MODULES EXCEPT ![t] = module]
                              ELSE SOURCE_MODULES
         /\ FILE_MODULES' = IF importModule = 1 /\ kind = "file"
                            THEN [FILE_MODULES EXCEPT ![n] = module]
                            ELSE FILE_MODULES
         /\ last' = call @@ [outcome |-> "rebuilt", ret |-> module, err |-> <<>>]

\* a text-backed getModule that never consults SOURCE_MODULES
GetModuleText_noCache(n, t, force, savePyc, importModule) ==
    /\ Rebuild("text", n, t, force, savePyc, importModule)
    /\ UNCHANGED <<isPy37, VERSION, compilerMtime, preppyTime, now, src>>
    /\ UNCHANGED <<caller, wsVars, tplVars>>

\* getModule(name, sourcetext=t, ...)
GetModuleText(n, t, force, savePyc, importModule) ==
    /\ IF SOURCE_MODULES[t] # NoModule
       THEN /\ last' = [kind |-> "text", name |-> n, sourcetext |-> <<t>>, force |-> force,
                        importModule |-> importModule,
                        outcome |-> "cached", ret |-> SOURCE_MODULES[t], err |-> <<>>]
            /\ UNCHANGED <<pyc, FILE_MODULES, SOURCE_MODULES>>
       ELSE Rebuild("text", n, t, force, savePyc, importModule)
    /\ UNCHANGED <<isPy37, VERSION, compilerMtime, preppyTime, now, src>>
    /\ UNCHANGED <<caller, wsVars, tplVars>>

\* a file-backed lookup without the "module is None" test of line 1246
FileDecision_noRaise(n, force) ==
    LET module == rl_get_module(n)
        checksum == module.checksum
    IN
    IF src[n] = <<>>
    THEN "nosource"
    ELSE IF getMd5(src[n][1]) = checksum /\ force = 0 THEN "uptodate" ELSE "rebuild"

\* lines 1232-1267: what a file-backed call finds
FileDecision(n, force) ==
    LET module == rl_get_module(n)
        checksum == module.checksum
    IN
    IF src[n] = <<>>
    THEN IF module = NoModule THEN "error" ELSE "nosource"
    ELSE IF getMd5(src[n][1]) = checksum /\ force = 0 THEN "uptodate" ELSE "rebuild"

\* getModule(name, ...) with no sourcetext
GetModuleFile(n, force, savePyc, importModule) ==
    LET module == rl_get_module(n)
        decision == FileDecision(n, force)
        call == [kind |-> "file", name |-> n, sourcetext |-> src[n], force |-> force,
                 importModule |-> importModule]
    IN
    /\ CASE decision = "error" ->
              /\ last' = call @@ [outcome |-> "error", ret |-> NoModule, err |-> NoSourceError(n)]
              /\ UNCHANGED <<pyc, FILE_MODULES, SOURCE_MODULES>>
         [] decision \in {"nosource", "uptodate"} ->
              /\ FILE_MODULES' = [FILE_MODULES EXCEPT ![n] = module]
              /\ last' = call @@ [outcome |-> decision, ret |-> module, err |-> <<>>]
              /\ UNCHANGED <<pyc, SOURCE_MODULES>>
         [] decision = "rebuild" ->
              Rebuild("file", n, src[n][1], force, savePyc, importModule)
    /\ UNCHANGED <<isPy37, VERSION, compilerMtime, preppyTime, now, src>>
    /\ UNCHANGED <<caller, wsVars, tplVars>>

GetModuleByName ==
    \E n \in Names, force \in Flags, savePyc \in Flags, importModule \in Flags :
        GetModuleFile(n, force, savePyc, importModule)

GetModuleByText ==
    \E n \in Names, t \in Texts, force \in Flags, savePyc \in Flags, importModule \in Flags :
        GetModuleText(n, t, force, savePyc, importModule)

\* ----------------------------------------------------------- environment
\* the template author saves n.prep
WriteSource ==
    \E n \in Names, t \in Texts :
        /\ src[n] # <<t>>
        /\ src' = [src EXCEPT ![n] = <<t>>]
        /\ last' = NoCall
        /\ UNCHANGED <<isPy37, VERSION, compilerMtime, preppyTime, now, pyc, FILE_MODULES, SOURCE_MODULES>>
        /\ UNCHANGED <<caller, wsVars, tplVars>>

\* n.prep is removed (a deployment that ships only the .pyc)
RemoveSource ==
    \E n \in Names :
        /\ src[n] # <<>>
        /\ src' = [src EXCEPT ![n] = <<>>]
        /\ last' = NoCall
        /\ UNCHANGED <<isPy37, VERSION, compilerMtime, preppyTime, now, pyc, FILE_MODULES, SOURCE_MODULES>>
        /\ UNCHANGED <<caller, wsVars, tplVars>>

\* n.pyc is replaced by the artifact another host runtime built
ForeignPyc ==
    \E n \in Names :
        /\ LoadOk(pyc[n])
        /\ pyc' = [pyc EXCEPT ![n].data = WriteAt(@, 0, <<Word(ForeignMagic)>>)]
        /\ last' = NoCall
        /\ UNCHANGED <<isPy37, VERSION, compilerMtime, preppyTime, now, src, FILE_MODULES, SOURCE_MODULES>>
        /\ UNCHANGED <<caller, wsVars, tplVars>>

Tick ==
    /\ now < MaxTime
    /\ now' = now + 1
    /\ last' = NoCall
    /\ UNCHANGED <<isPy37, VERSION, compilerMtime, preppyTime, src, pyc, FILE_MODULES, SOURCE_MODULES>>
    /\ UNCHANGED <<caller, wsVars, tplVars>>

\* a new process imports preppy, possibly after the compiler was upgraded:
\* the module-level code runs again
ImportPreppy ==
    /\ \E v \in {VERSION, VERSION + 1} :
          /\ v <= MaxVersion
          /\ VERSION' = v
    /\ \E kind \in CompilerKinds, mtime \in {compilerMtime, now} :
          /\ compilerMtime' = mtime
          /\ preppyTime' = preppyTimeOf(kind, mtime)
    /\ FILE_MODULES' = [n \in Names |-> NoModule]
    /\ SOURCE_MODULES' = [t \in Texts |-> NoModule]
    /\ last' = NoCall
    /\ UNCHANGED <<isPy37, now, src, pyc>>
    /\ UNCHANGED <<caller, wsVars, tplVars>>

\* A text-backed call reads SOURCE_MODULES and nothing else (lines 1216-1225)
\* and writes what a forced file-backed rebuild of the same text writes
\* (lines 1269-1317), n.pyc included; a file-backed call reads n.prep and
\* n.pyc and never SOURCE_MODULES (lines 1226-1267).  The two kinds of call
\* are therefore explored apart: the file-backed calls with everything the
\* environment can do to the disk, the text-backed calls with the clock and
\* the process restarts.
Next ==
    \/ GetModuleByName
    \/ WriteSource
    \/ RemoveSource
    \/ ForeignPyc
    \/ Tick
    \/ ImportPreppy

Spec == Init /\ [][Next]_vars

NextText ==
    \/ GetModuleByText
    \/ Tick
    \/ ImportPreppy

SpecText == Init /\ [][NextText]_vars

\* --------------------------------------------- getModule, step by step
\* Concurrent callers of getModule(name) with the default savePyc and
\* importModule.  Lines 1226-1275 (the lookup and the compilation) read the
\* disk once; the persistence of lines 1286-1299 is one step per statement.
\* The file object buffers what is written to it: the buffer reaches the
\* file at flush, at close, and earlier whenever it overflows.
cacheFrame == <<isPy37, VERSION, compilerMtime, preppyTime, now, src, SOURCE_MODULES, last>>

At(c, pcs) == caller[c].pc \in pcs

Goto(c, pc, buf, pos) ==
    caller' = [caller EXCEPT ![c].pc = pc, ![c].buf = buf, ![c].pos = pos]

\* the buffered bytes cells[1..k] of caller c reach its file at its position
Drain(c, k) ==
    LET me == caller[c] IN
    pyc' = [pyc EXCEPT ![me.name].data = WriteAt(@, me.pos, SubSeq(me.buf, 1, k))]

\* lines 1232-1261: the persisted module is returned as it is
Reuse(c) ==
    \E n \in Names :
        /\ At(c, {"idle"})
        /\ FileDecision(n, 0) \in {"nosource", "uptodate"}
        /\ FILE_MODULES' = [FILE_MODULES EXCEPT ![n] = rl_get_module(n)]
        /\ UNCHANGED <<cacheFrame, pyc, caller, wsVars, tplVars>>

\* lines 1232-1275: the lookup decides to rebuild and the template compiles
Compile(c) ==
    \E n \in Names, force \in Flags :
        /\ At(c, {"idle"})
        /\ FileDecision(n, force) = "rebuild"
        /\ ~Malformed(src[n][1])
        /\ caller' = [caller EXCEPT ![c] = [pc |-> "compiled", name |-> n, t |-> src[n][1],
                                            buf |-> <<>>, pos |-> 0]]
        /\ UNCHANGED <<cacheFrame, pyc, FILE_MODULES, wsVars, tplVars>>

\* line 1286: open(pycPath,'wb') creates or truncates the file
Open(c) ==
    /\ At(c, {"compiled"})
    /\ pyc' = [pyc EXCEPT ![caller[c].name] = [exists |-> TRUE, data |-> <<>>]]
    /\ Goto(c, "opened", <<>>, 0)
    /\ UNCHANGED <<cacheFrame, FILE_MODULES, wsVars, tplVars>>

\* a header written with the magic number in place from the start
WriteHeader_tagFirst(c) ==
    /\ At(c, {"opened"})
    /\ Goto(c, "header",
            caller[c].buf \o WriteAt(HeaderStream(now, SizeOf(caller[c].t)), 0, <<Word(MAGIC_NUMBER)>>),
            caller[c].pos)
    /\ UNCHANGED <<cacheFrame, pyc, FILE_MODULES, wsVars, tplVars>>

\* lines 1287-1295: the placeholder, the flags, the timestamp and the size
WriteHeader(c) ==
    /\ At(c, {"opened"})
    /\ Goto(c, "header", caller[c].buf \o HeaderStream(now, SizeOf(caller[c].t)), caller[c].pos)
    /\ UNCHANGED <<cacheFrame, pyc, FILE_MODULES, wsVars, tplVars>>

\* line 1296: marshal.dump(P.codeobject, f)
DumpBody(c) ==
    /\ At(c, {"header"})
    /\ Goto(c, "dumped", caller[c].buf \o Body(getMd5(caller[c].t)), caller[c].pos)
    /\ UNCHANGED <<cacheFrame, pyc, FILE_MODULES, wsVars, tplVars>>

\* the buffer overflows while lines 1287-1296 write: its head reaches the file
Spill(c) ==
    \E k \in 1..Len(caller[c].buf) :
        /\ At(c, {"header", "dumped"})
        /\ Drain(c, k)
        /\ Goto(c, caller[c].pc, SubSeq(caller[c].buf, k + 1, Len(caller[c].buf)), caller[c].pos + k)
        /\ UNCHANGED <<cacheFrame, FILE_MODULES, wsVars, tplVars>>

\* line 1297: f.flush()
Flush(c) ==
    /\ At(c, {"dumped"})
    /\ Drain(c, Len(caller[c].buf))
    /\ Goto(c, "flushed", <<>>, caller[c].pos + Len(caller[c].buf))
    /\ UNCHANGED <<cacheFrame, FILE_MODULES, wsVars, tplVars>>

\* lines 1298-1299: f.seek(0); f.write(MAGIC_NUMBER)
WriteMagic(c) ==
    /\ At(c, {"flushed"})
    /\ Goto(c, "magic", <<Word(MAGIC_NUMBER)>>, 0)
    /\ UNCHANGED <<cacheFrame, pyc, FILE_MODULES, wsVars, tplVars>>

\* the with block of line 1286 ends: the file is flushed and closed
Close(c) ==
    /\ At(c, {"magic"})
    /\ Drain(c, Len(caller[c].buf))
    /\ Goto(c, "closed", <<>>, caller[c].pos + Len(caller[c].buf))
    /\ UNCHANGED <<cacheFrame, FILE_MODULES, wsVars, tplVars>>

\* lines 1303-1317: the module is made, cached and returned
Finish(c) ==
    /\ At(c, {"closed"})
    /\ FILE_MODULES' = [FILE_MODULES EXCEPT
                           ![caller[c].name] = NewModule(caller[c].name, getMd5(caller[c].t))]
    /\ caller' = [caller EXCEPT ![c] = IdleCaller]
    /\ UNCHANGED <<cacheFrame, pyc, wsVars, tplVars>>

NextConc ==
    \/ WriteSource
    \/ Tick
    \/ \E c \in Callers : Reuse(c)
    \/ \E c \in Callers : Compile(c)
    \/ \E c \in Callers : Open(c)
    \/ \E c \in Callers : WriteHeader(c)
    \/ \E c \in Callers : DumpBody(c)
    \/ \E c \in Callers : Spill(c)
    \/ \E c \in Callers : Flush(c)
    \/ \E c \in Callers : WriteMagic(c)
    \/ \E c \in Callers : Close(c)
    \/ \E c \in Callers : Finish(c)

SpecConc == Init /\ [][NextConc]_vars

\* --------------------------------------------------- __wsscontroller__
\* A string is a sequence of characters; SP stands for the characters of
\* the class wsc (space, tab, ...), NL is the line feed, which wsc leaves
\* out, and X is any other character.
SP == "sp"
NL == "nl"
X == "x"
Chars == {SP, NL, X}

\* wsc, and wsc+u'\u000A'
Wsc == {SP}
pats == [w \in {1, 2} |-> IF w = 1 THEN Wsc ELSE Wsc \cup {NL}]

Strings(n) == UNION {[1..k -> Chars] : k \in 0..n}

\* the literals of a template: the lexer drops empty spans
Literals == Strings(MaxLen) \ {<<>>}

\* what an expression directive may hand to __swrite__
ExprValues == {<<>>, <<X>>, <<SP, X>>}

\* the length of the match of ^[class]* at the start of s
MatchLen(class, s) ==
    CHOOSE k \in 0..Len(s) :
        /\ \A i \in 1..k : s[i] \in class
        /\ k = Len(s) \/ s[k + 1] \notin class

\* re.compile(u'^[%s]*' % class).sub('', s)
Sub(class, s) == SubSeq(s, MatchLen(class, s) + 1, Len(s))

\* a filter whose two patterns are the same character class
FilterLiteral_sameClass(w, s) ==
    IF w = 0 THEN <<FALSE, s>>
    ELSE LET s1 == Sub(pats[1], s) IN
         IF w = 1
         THEN IF s1 = <<>> THEN <<TRUE, <<>>>>
              ELSE IF s1[1] = NL THEN <<FALSE, Tail(s1)>>
              ELSE <<FALSE, s1>>
         ELSE <<FALSE, s1>>

\* the body of c(s) when ws was w: <<raised, value>>
FilterLiteral(w, s) ==
    IF w = 0 THEN <<FALSE, s>>
    ELSE LET s1 == Sub(pats[w], s) IN
         IF w = 1
         THEN IF s1 = <<>> THEN <<TRUE, <<>>>>      \* s[0] raises IndexError
              ELSE IF s1[1] = NL THEN <<FALSE, Tail(s1)>>
              ELSE <<FALSE, s1>>
         ELSE <<FALSE, s1>>

WsDone(op, was, arg, raised, ret) ==
    wsCall' = [op |-> op, was |-> was, arg |-> arg, raised |-> raised, ret |-> ret]

wsFrame == <<isPy37, VERSION, compilerMtime, preppyTime, now, src, pyc, FILE_MODULES,
             SOURCE_MODULES, last, caller, source, P, ran>>

\* a run of a template starts with a fresh controller
NewController ==
    /\ wsCall.op # "__init__"
    /\ ws' = 0
    /\ WsDone("__init__", 0, <<>>, FALSE, <<>>)
    /\ UNCHANGED wsFrame

\* {{.dnl}}
dnl ==
    /\ ~wsCall.raised
    /\ ws' = 1
    /\ WsDone("dnl", ws, <<>>, FALSE, <<>>)
    /\ UNCHANGED wsFrame

\* {{.dws}}
dws ==
    /\ ~wsCall.raised
    /\ ws' = 2
    /\ WsDone("dws", ws, <<>>, FALSE, <<>>)
    /\ UNCHANGED wsFrame

\* an x(s) that leaves ws as it was
x_noReset ==
    \E s \in ExprValues :
        /\ ~wsCall.raised
        /\ ws' = ws
        /\ WsDone("x", ws, s, FALSE, s)
        /\ UNCHANGED wsFrame

\* x(s): the value of an expression directive passes through
x ==
    \E s \in ExprValues :
        /\ ~wsCall.raised
        /\ ws' = 0
        /\ WsDone("x", ws, s, FALSE, s)
        /\ UNCHANGED wsFrame

\* c(s): a literal passes through the filter
c ==
    \E s \in Literals :
        /\ ~wsCall.raised
        /\ ws' = 0
        /\ WsDone("c", ws, s, FilterLiteral(ws, s)[1], FilterLiteral(ws, s)[2])
        /\ UNCHANGED wsFrame

NextWs ==
    \/ NewController
    \/ dnl
    \/ dws
    \/ x
    \/ c

InitNoCache ==
    /\ isPy37 = TRUE
    /\ VERSION = 1
    /\ now = 1
    /\ compilerMtime = 1
    /\ preppyTime = 1
    /\ src = [n \in Names |-> <<>>]
    /\ pyc = [n \in Names |-> NoFile]
    /\ FILE_MODULES = [n \in Names |-> NoModule]
    /\ SOURCE_MODULES = [t \in Texts |-> NoModule]
    /\ last = NoCall

InitController == InitNoCache /\ InitCallers /\ InitWs /\ InitNoTemplate

SpecWs == InitController /\ [][NextWs]_vars

\* ------------------------------------------------------------- the lexer
\* A template text is a sequence of atoms: the two delimiters, the blank
\* SP and the line feed NL, the keywords, the punctuation of a tag and
\* atoms that stand for a stretch of other characters (a Python name, an
\* expression, a piece of literal text).  Offsets count atoms from 0, an end
\* offset is exclusive, as in Token(kind, start, end).
STARTDELIMITER == "{{"
ENDDELIMITER == "}}"

isPy310 == TRUE

StartKw ==
    {"while", "if", "elif", "for", "continue", "break", "try", "except", "raise",
     "with", "import", "from", "assert", "return"}
        \cup (IF isPy310 THEN {"match", "case"} ELSE {})

EndKw ==
    {"else", "script", "eval", "endwhile", "endif", "endscript", "endeval",
     "endfor", "finally", "endtry", "endwith", "enddef"}
        \cup (IF isPy310 THEN {"endmatch"} ELSE {})

\* Python names
Idents == {"f", "g", "a", "b", "i", "n"}

\* the atoms that start with a letter ([_a-zA-Z])
Letters == Idents \cup StartKw \cup EndKw \cup {"def", X, "y"}

IsWs(a) == a \in {SP, NL}

\* the number of atoms \s* matches from offset k of s
WsRun(s, k) ==
    CHOOSE m \in 0..(Len(s) - k) :
        /\ \A j \in 1..m : IsWs(s[k + j])
        /\ k + m = Len(s) \/ ~IsWs(s[k + m + 1])

\* s.strip()
Strip(s) ==
    IF \A j \in 1..Len(s) : IsWs(s[j]) THEN <<>>
    ELSE LET lo == CHOOSE j \in 1..Len(s) : ~IsWs(s[j]) /\ \A h \in 1..(j - 1) : IsWs(s[h])
             hi == CHOOSE j \in 1..Len(s) : ~IsWs(s[j]) /\ \A h \in (j + 1)..Len(s) : IsWs(s[h])
         IN SubSeq(s, lo, hi)

\* $ under re.M at offset k of s: the end of the text or just before a line feed
AtDollar(s, k) == k = Len(s) \/ s[k + 1] = NL

\* _s.match(body): which alternative matches, and the groups __tokenize
\* reads.  The group "def" is def\s*: blanks between def and ( are part of
\* the kind of the token, written "def " here.
Match_s(body) ==
    LET n == Len(body)
        w == IF n >= 1 THEN WsRun(body, 1) ELSE 0
        rest == IF n >= 1 THEN Tail(body) ELSE <<>>
    IN
    IF n >= 1 /\ body[1] \in StartKw /\ (n = 1 \/ IsWs(body[2]))
    THEN [alt |-> "start", t |-> body[1], grp |-> IF n = 1 THEN <<>> ELSE SubSeq(body, 2, 1 + w)]
    ELSE IF /\ n >= 1 + w + 2
            /\ body[1] = "def"
            /\ body[2 + w] \in Letters
            /\ 3 + w + WsRun(body, 2 + w) <= n
            /\ body[3 + w + WsRun(body, 2 + w)] = "("
            /\ \E k \in (3 + w + WsRun(body, 2 + w))..n :
                  /\ body[k] = ")"
                  /\ \E m \in 0..(n - k) :
                        /\ \A j \in 1..m : IsWs(body[k + j])
                        /\ AtDollar(body, k + m)
    THEN [alt |-> "tdef", t |-> "tdef", grp |-> SubSeq(body, 3 + w, n)]
    ELSE IF n >= 1 /\ body[1] = "def" /\ n > 1 + w /\ body[2 + w] = "("
    THEN [alt |-> "def", t |-> IF w = 0 THEN "def" ELSE "def ", grp |-> <<"(">>]
    ELSE IF n >= 1 /\ body[1] = "def" /\ \E m \in 0..w : AtDollar(body, 1 + m)
    THEN [alt |-> "def", t |-> "def", grp |-> <<>>]
    ELSE IF n >= 1 /\ body[1] \in EndKw
    THEN [alt |-> "end", t |-> body[1],
          grp |-> IF \E m \in 0..w : AtDollar(body, 1 + m) THEN <<>> ELSE rest]
    ELSE [alt |-> "none", t |-> "expr", grp |-> <<>>]

NoDollarStartKw == {"continue", "break", "try", "except", "return", "raise"}

Token(kind, start, end) == [kind |-> kind, start |-> start, end |-> end]

LexError(msg, pos) == <<"SyntaxError", msg, pos>>

\* lines 481-498: whether the tag whose match is m raises "Bad ..."
BadTag(m) ==
    CASE m.alt = "start" -> m.grp = <<>> /\ m.t \notin NoDollarStartKw
      [] m.alt = "end" -> m.grp # <<>> /\ m.t # "else" /\ Strip(m.grp) # <<":">>
      [] m.alt = "def" -> m.grp = <<>>
      [] OTHER -> FALSE

\* lines 481-510 for a tag whose match is m
Finalized(m, bad, defSeen) ==
    [t |-> m.t,
     msg |-> IF bad THEN <<"Bad", m.t>>
             ELSE IF m.alt = "def" /\ defSeen > 0 THEN <<"Only one def may be used">>
             ELSE IF m.alt = "def" /\ defSeen < 0 THEN <<"def must come first">>
             ELSE <<>>,
     defSeen |-> IF m.alt = "def" THEN 1 ELSE IF defSeen = 0 THEN -1 ELSE defSeen]

\* a lexer that takes a def wherever it stands
Finalize_anyDef(body, defSeen) ==
    [Finalized(Match_s(body), BadTag(Match_s(body)), 0) EXCEPT
        !.defSeen = Finalized(Match_s(body), FALSE, defSeen).defSeen]

\* lines 481-510: the kind of the tag text[ix:i0], the error it raises,
\* and _defSeen afterwards
Finalize(body, defSeen) == Finalized(Match_s(body), BadTag(Match_s(body)), defSeen)

RECURSIVE Scan(_, _, _, _, _, _)

\* lines 481-513: the tag text[ix:i] is closed at i, f is what lines 481-510
\* make of it
EndTag(text, i, ix, tokens, defSeen, f) ==
    IF f.msg # <<>>
    THEN [raised |-> TRUE, err |-> LexError(f.msg, i), tokens |-> <<>>, defSeen |-> defSeen]
    ELSE Scan(text, i + 1, 0, i + 1,
              IF i # ix THEN Append(tokens, Token(f.t, ix, i)) ELSE tokens,
              f.defSeen)

\* the loop over _pat.finditer(text) from offset i on, and lines 515-521
Scan(text, i, state, ix, tokens, defSeen) ==
    IF i >= Len(text)
    THEN IF state = 1
         THEN [raised |-> TRUE, err |-> LexError(<<"Unterminated preppy token">>, ix),
               tokens |-> <<>>, defSeen |-> defSeen]
         ELSE [raised |-> FALSE, err |-> <<>>,
               tokens |-> (IF ix # Len(text) THEN Append(tokens, Token("const", ix, Len(text)))
                           ELSE tokens) \o <<Token("eof", Len(text), Len(text))>>,
               defSeen |-> defSeen]
    ELSE IF text[i + 1] = STARTDELIMITER
    THEN LET i1 == i + 1 + WsRun(text, i + 1) IN
         IF state = 1
         THEN [raised |-> TRUE, err |-> LexError(<<"Unexpected {{">>, i),
               tokens |-> <<>>, defSeen |-> defSeen]
         ELSE Scan(text, i1, 1, i1,
                   IF i # ix THEN Append(tokens, Token("const", ix, i)) ELSE tokens,
                   defSeen)
    ELSE IF text[i + 1] = ENDDELIMITER /\ state = 1
    THEN EndTag(text, i, ix, tokens, defSeen, Finalize(SubSeq(text, ix + 1, i), defSeen))
    ELSE Scan(text, i + 1, state, ix, tokens, defSeen)

\* a lexer that lets a text end inside a tag
tokenize_openEnded(text) ==
    LET r == Scan(text, 0, 0, 0, <<>>, 0) IN
    IF r.raised /\ r.err[2] = <<"Unterminated preppy token">>
    THEN [r EXCEPT !.raised = FALSE, !.err = <<>>,
                   !.tokens = <<Token("eof", Len(text), Len(text))>>]
    ELSE r

\* PreppyParser.__tokenize
tokenize(text) == Scan(text, 0, 0, 0, <<>>, 0)

\* ------------------------------------------------- Python fragments
\* The Python inside a tag is made of atoms too.  An expression is one
\* expression atom or a call name(arg); a script is one statement atom.
Consts == {"0", "1", "''", "()", "(1,)", "(1,2)"}

PyNames == Idents \cup {X, "y"}

ExprAtoms == Consts \cup PyNames

\* n=0 and the like: the target, the operator and the value assigned
StmtAtoms == {"n=0", "n=1", "n+=1"}

AssignedValue(a) == IF a = "n=0" THEN "0" ELSE "1"

IsCall(e) ==
    \/ Len(e) = 3 /\ e[1] \in PyNames /\ e[2] = "(" /\ e[3] = ")"
    \/ Len(e) = 4 /\ e[1] \in PyNames /\ e[2] = "(" /\ e[3] \in ExprAtoms /\ e[4] = ")"

IsExpr(e) == (Len(e) = 1 /\ e[1] \in ExprAtoms) \/ IsCall(e)

\* ------------------------------------------------------------ the parser
\* self.__lineno(t) and self.__colOffset(t) of an offset
lineno(text, start) == 1 + Cardinality({j \in 1..start : text[j] = NL})

\* a column counted from the start of the text
colOffset_ofText(text, start) == start

colOffset(text, start) ==
    start - Max(0, CHOOSE k \in 0..start :
                      /\ k = 0 \/ text[k] = NL
                      /\ \A j \in (k + 1)..start : text[j] # NL)

\* self.source[t.start:t.end] of the token at the cursor
TokenSource(S, xx) == SubSeq(S.text, S.tokens[xx + 1].start + 1, S.tokens[xx + 1].end)

\* lines 529-534: one trailing colon taken off when colonRemove or
\* forceColonPass is set
ColonRemoved(text, colon) ==
    IF colon /\ Len(text) >= 1 /\ text[Len(text)] = ":"
    THEN SubSeq(text, 1, Len(text) - 1)
    ELSE text

\* __tokenText: the text of the token at the cursor, stripped, with one
\* trailing colon taken off when colonRemove or forceColonPass is set
tokenText(S, xx, strip, colon) ==
    ColonRemoved(IF strip THEN Strip(TokenSource(S, xx)) ELSE TokenSource(S, xx), colon)

\* what follows the keyword kw and its blanks in a header, trailing blanks
\* dropped; <<"?">> when text does not start with kw and a blank
Clause(kw, text) ==
    IF Len(text) >= 2 /\ text[1] = kw /\ IsWs(text[2])
    THEN Strip(Tail(text))
    ELSE <<"?">>

\* the nodes of the statement tree, placed as __renumber places them
Placed(S, t) == [lineno |-> lineno(S.text, t.start), col_offset |-> colOffset(S.text, t.start)]

Node(type, S, t, fields) == [type |-> type] @@ Placed(S, t) @@ fields

\* a handler's result: the error raised (<<>> when none), the nodes it
\* returns, the cursor and _fnc_defn afterwards
Ok(nodes, xx) == [err |-> <<>>, nodes |-> nodes, x |-> xx, defn |-> <<>>]

Fail(kind, msg, pos) == [err |-> <<kind, msg, pos>>, nodes |-> <<>>, x |-> 0, defn |-> <<>>]

\* __serror and __error at the cursor
serror(S, xx, msg) == Fail("SyntaxError", msg, S.tokens[xx + 1].start)

funcs ==
    {"const", "expr", "while", "if", "for", "script", "eval", "def", "continue",
     "break", "try", "raise", "with", "import", "from", "assert", "tdef", "return"}
        \cup (IF isPy310 THEN {"match", "case"} ELSE {})

\* the context a handler runs in: __inWhile, __inFor and len(__inTdef)
TopContext == [inWhile |-> 0, inFor |-> 0, inTdef |-> 0]

\* __const
const(S, xx) ==
    Ok(<<Node("write", S, S.tokens[xx + 1], [text |-> tokenText(S, xx, FALSE, FALSE)])>>, xx + 1)

\* __expr for the stripped text t of the token
exprOf(S, xx, t) ==
    IF IsExpr(t)
    THEN Ok(<<Node("swrite", S, S.tokens[xx + 1], [value |-> t])>>, xx + 1)
    ELSE IF t \in {<<".dnl">>, <<".dws">>}
    THEN Ok(<<Node("swrite", S, S.tokens[xx + 1], [value |-> <<"__wss__", t[1]>>])>>, xx + 1)
    ELSE IF Len(t) = 1 /\ t[1] \in StmtAtoms
    THEN Ok(<<Node("swrite", S, S.tokens[xx + 1], [value |-> <<AssignedValue(t[1])>>])>>, xx + 1)
    ELSE serror(S, xx, "bad expression")

\* __expr
expr(S, xx) == exprOf(S, xx, tokenText(S, xx, TRUE, FALSE))

\* a __break that does not look for a loop
break_anywhere(S, xx, ctx, stmt) ==
    IF tokenText(S, xx, TRUE, FALSE) # <<stmt>>
    THEN serror(S, xx, "invalid statement")
    ELSE Ok(<<Node(IF stmt = "break" THEN "Break" ELSE "Continue", S, S.tokens[xx + 1], <<>>)>>, xx + 1)

\* __break and __continue
break(S, xx, ctx, stmt) ==
    IF tokenText(S, xx, TRUE, FALSE) # <<stmt>>
    THEN serror(S, xx, "invalid statement")
    ELSE IF ctx.inWhile = 0 /\ ctx.inFor = 0
    THEN serror(S, xx, "statement outside while or for loop")
    ELSE Ok(<<Node(IF stmt = "break" THEN "Break" ELSE "Continue", S, S.tokens[xx + 1], <<>>)>>, xx + 1)

\* a statement that is its keyword alone or its keyword and an expression
\* cl: the node, with the expression in its field f
KeywordStatement(kw, type, f, S, xx, text, cl) ==
    IF text = <<kw>>
    THEN Ok(<<Node(type, S, S.tokens[xx + 1], f :> <<>>)>>, xx + 1)
    ELSE IF IsExpr(cl)
    THEN Ok(<<Node(type, S, S.tokens[xx + 1], f :> cl)>>, xx + 1)
    ELSE serror(S, xx, "invalid syntax")

\* a __return that takes the directive wherever it stands
return_anywhere(S, xx, ctx) ==
    KeywordStatement("return", "Return", "value", S, xx, tokenText(S, xx, TRUE, FALSE),
                     Clause("return", tokenText(S, xx, TRUE, FALSE)))

\* __return
return(S, xx, ctx) ==
    IF ctx.inTdef = 0
    THEN serror(S, xx, "statement outside while or for loop")
    ELSE KeywordStatement("return", "Return", "value", S, xx, tokenText(S, xx, TRUE, FALSE),
                          Clause("return", tokenText(S, xx, TRUE, FALSE)))

\* __raise
raise(S, xx) ==
    KeywordStatement("raise", "Raise", "exc", S, xx, tokenText(S, xx, TRUE, FALSE),
                     Clause("raise", tokenText(S, xx, TRUE, FALSE)))

\* __import, __from and __assert for what follows the keyword, cl
importOf(S, xx, stmt, cl) ==
    IF stmt = "assert" /\ IsExpr(cl)
    THEN Ok(<<Node("Assert", S, S.tokens[xx + 1], [test |-> cl])>>, xx + 1)
    ELSE IF stmt = "import" /\ Len(cl) = 1 /\ cl[1] \in PyNames
    THEN Ok(<<Node("Import", S, S.tokens[xx + 1], [names |-> cl])>>, xx + 1)
    ELSE IF /\ stmt = "from"
            /\ \E m \in PyNames, v \in PyNames : cl = <<m, SP, "import", SP, v>>
    THEN Ok(<<Node("ImportFrom", S, S.tokens[xx + 1], [module |-> <<cl[1]>>, names |-> <<cl[5]>>])>>, xx + 1)
    ELSE serror(S, xx, "invalid syntax")

\* __import, __from and __assert
import(S, xx, stmt) == importOf(S, xx, stmt, Clause(stmt, tokenText(S, xx, TRUE, FALSE)))

ExcNames == {"Exception", "NameError"}

\* the header of a tag that opens a body, as Python parses it with
\* ":\tpass" appended, cl being what follows the keyword: the fields of the
\* node, or <<>> when Python rejects it
HeaderOf(kw, text, cl) ==
    CASE kw \in {"if", "elif", "while"} ->
            IF IsExpr(cl) THEN [test |-> cl] ELSE <<>>
      [] kw = "for" ->
            IF \E v \in PyNames, e \in ExprAtoms : cl = <<v, SP, "in", SP, e>>
            THEN [target |-> <<cl[1]>>, iter |-> <<cl[5]>>]
            ELSE <<>>
      [] kw = "with" ->
            IF IsExpr(cl) THEN [context_expr |-> cl, optional_vars |-> <<>>]
            ELSE IF \E e \in ExprAtoms, v \in PyNames : cl = <<e, SP, "as", SP, v>>
            THEN [context_expr |-> <<cl[1]>>, optional_vars |-> <<cl[5]>>]
            ELSE <<>>
      [] kw = "match" ->
            IF IsExpr(cl) THEN [subject |-> cl] ELSE <<>>
      [] kw = "case" ->
            IF Len(cl) = 1 /\ cl[1] \in {"0", "1", "_"} THEN [pattern |-> cl] ELSE <<>>
      [] kw = "except" ->
            IF text = <<"except">> THEN [exc |-> <<>>]
            ELSE IF Len(cl) = 1 /\ cl[1] \in ExcNames THEN [exc |-> cl]
            ELSE <<>>
      [] OTHER -> <<>>

\* the header of a tag that opens a body
Header(kw, text) == HeaderOf(kw, text, Clause(kw, text))

\* "def name(params)" of a named sub-block or "(params)" of the template's
\* own signature: the parameter atoms between the parentheses
ParamAtoms == {"a", "b", "b=1", "*r", "**k"}

ParamName(p) ==
    CASE p = "a" -> "a" [] p = "b" -> "b" [] p = "b=1" -> "b" [] p = "*r" -> "r" [] p = "**k" -> "k"

\* the parameters of a comma separated list, or <<"?">>
RECURSIVE Params(_)
Params(s) ==
    IF s = <<>> THEN <<>>
    ELSE IF s[1] \notin ParamAtoms THEN <<"?">>
    ELSE IF Len(s) = 1 THEN <<s[1]>>
    ELSE IF s[2] # "," \/ Len(s) = 2 THEN <<"?">>
    ELSE LET r == Params(SubSeq(s, 3, Len(s))) IN
         IF r = <<"?">> THEN r ELSE <<s[1]>> \o r

\* what ast.parse accepts as a parameter list: no parameter without a
\* default after one with a default, *r before **k, **k last
ParsableParams(ps) ==
    /\ ps # <<"?">>
    /\ \A j, k \in 1..Len(ps) : (j < k /\ ps[j] = "b=1") => ps[k] \notin {"a", "b"}
    /\ \A j, k \in 1..Len(ps) : (j < k /\ ps[j] = "**k") => FALSE
    /\ \A j, k \in 1..Len(ps) : (j < k /\ ps[j] = "*r") => ps[k] # "*r"

\* what compile() accepts as well: no name twice
ValidParams(ps) ==
    /\ ParsableParams(ps)
    /\ \A j, k \in 1..Len(ps) : j # k => ParamName(ps[j]) # ParamName(ps[k])

\* ast.arguments of a valid parameter list; what follows *r is keyword-only
Arguments(ps) ==
    LET star == {j \in 1..Len(ps) : ps[j] = "*r"}
        cut == IF star = {} THEN Len(ps) + 1 ELSE CHOOSE j \in star : TRUE
        plain(lo, hi) == SelectSeq(SubSeq(ps, lo, hi), LAMBDA p : p \in {"a", "b", "b=1"})
    IN [args |-> plain(1, cut - 1),
        vararg |-> IF star = {} THEN "" ELSE "r",
        kwonlyargs |-> plain(cut + 1, Len(ps)),
        kwarg |-> IF \E j \in 1..Len(ps) : ps[j] = "**k" THEN "k" ELSE ""]

\* the text "(" params ")" with blanks around it dropped: the parameters
Signature(s) ==
    IF Len(s) >= 2 /\ s[1] = "(" /\ s[Len(s)] = ")"
    THEN Params(SubSeq(s, 2, Len(s) - 1))
    ELSE <<"?">>

RECURSIVE preppy(_, _, _, _, _, _), Statements(_, _, _, _, _, _), Dispatch(_, _, _, _)
RECURSIVE IfChain(_, _, _), TryClauses(_, _, _, _), Cases(_, _, _, _)

\* lines 559-563: what __preppy returns once its loop has ended with r
EndOfBlock(S, pop, fixEmpty, r) ==
    IF r.err # <<>> THEN r
    ELSE [r EXCEPT !.nodes = IF r.nodes = <<>> /\ fixEmpty
                               THEN <<Node("Pass", S, S.tokens[r.x + 1], <<>>)>>
                               ELSE r.nodes,
                   !.x = IF pop THEN r.x + 1 ELSE r.x]

\* __preppy: statements up to a follower
preppy(S, xx, ctx, followers, pop, fixEmpty) ==
    EndOfBlock(S, pop, fixEmpty, Statements(S, xx, ctx, followers, <<>>, <<>>))

\* the loop of __preppy goes on after the handler of a token returned r
AfterStatement(S, ctx, followers, C, defn, r) ==
    IF r.err # <<>> THEN r
    ELSE Statements(S, r.x, ctx, followers, C \o r.nodes, IF r.defn # <<>> THEN r.defn ELSE defn)

\* the while loop of __preppy
Statements(S, xx, ctx, followers, C, defn) ==
    IF xx >= Len(S.tokens) THEN Fail("IndexError", "list index out of range", xx)
    ELSE IF S.tokens[xx + 1].kind \in followers
    THEN [err |-> <<>>, nodes |-> C, x |-> xx, defn |-> defn]
    ELSE IF S.tokens[xx + 1].kind \notin funcs THEN serror(S, xx, "invalid syntax")
    ELSE AfterStatement(S, ctx, followers, C, defn, Dispatch(S.tokens[xx + 1].kind, S, xx, ctx))

\* the node of a statement with a body and an else, once both are parsed
WithOrelse(type, S, xx, h, body, orelse) ==
    IF orelse.err # <<>> THEN orelse
    ELSE Ok(<<Node(type, S, S.tokens[xx + 1], h @@ [body |-> body.nodes, orelse |-> orelse.nodes])>>,
            orelse.x)

\* __while and __for after the header h and the body are parsed: the else
\* up to the end tag, when the body stopped at an else
Loop(type, end, S, xx, inner, h, body) ==
    IF h = <<>> THEN serror(S, xx, "invalid syntax")
    ELSE IF body.err # <<>> THEN body
    ELSE WithOrelse(type, S, xx, h, body,
                    IF S.tokens[body.x].kind = "else"
                    THEN preppy(S, body.x, inner, {end}, TRUE, FALSE)
                    ELSE Ok(<<>>, body.x))

\* __while
while(S, xx, ctx) ==
    Loop("While", "endwhile", S, xx, [ctx EXCEPT !.inWhile = @ + 1],
         Header("while", tokenText(S, xx, TRUE, TRUE)),
         preppy(S, xx + 1, [ctx EXCEPT !.inWhile = @ + 1], {"endwhile", "else"}, TRUE, TRUE))

\* __for
for(S, xx, ctx) ==
    Loop("For", "endfor", S, xx, [ctx EXCEPT !.inFor = @ + 1],
         Header("for", tokenText(S, xx, TRUE, TRUE)),
         preppy(S, xx + 1, [ctx EXCEPT !.inFor = @ + 1], {"endfor", "else"}, TRUE, TRUE))

\* the header of the if or elif whose text is text
IfHeader(text) ==
    IF text # <<>> /\ text[1] \in {"if", "elif"} THEN Header(text[1], text) ELSE <<>>

\* what follows the body of an if or elif that ended before the cursor at,
\* at a token of kind k
IfOrelse(S, ctx, at, k) ==
    CASE k = "elif" -> IfChain(S, at - 1, ctx)
      [] k = "else" -> preppy(S, at, ctx, {"endif"}, TRUE, FALSE)
      [] OTHER -> Ok(<<>>, at)

\* one turn of the loop of __if after the header h and the body are parsed
IfBody(S, xx, ctx, h, body) ==
    IF h = <<>> THEN serror(S, xx, "invalid syntax")
    ELSE IF body.err # <<>> THEN body
    ELSE WithOrelse("If", S, xx, h, body, IfOrelse(S, ctx, body.x, S.tokens[body.x].kind))

\* one turn of the loop of __if: the if or elif at the cursor, its body,
\* and the elif or else that follows
IfChain(S, xx, ctx) ==
    IfBody(S, xx, ctx, IfHeader(tokenText(S, xx, TRUE, TRUE)),
           preppy(S, xx + 1, ctx, {"endif", "elif", "else"}, TRUE, TRUE))

\* the finally of a try, b being its body
Finally(n, b) ==
    IF b.err # <<>> THEN b ELSE Ok(<<[n EXCEPT !.finalbody = b.nodes]>>, b.x)

\* the else of a try, b being its body
TryOrelse(S, ctx, n, b) ==
    IF b.err # <<>> THEN b ELSE TryClauses(S, b.x, ctx, [n EXCEPT !.orelse = b.nodes])

\* an except of a try, h being its header and b its body
Except(S, xx, ctx, n, h, b) ==
    IF h = <<>> THEN Fail("SyntaxError", "invalid syntax", S.tokens[xx + 1].start)
    ELSE IF b.err # <<>> THEN b
    ELSE TryClauses(S, b.x, ctx,
             [n EXCEPT !.handlers = Append(@,
                 Node("ExceptHandler", S, S.tokens[xx + 1], h @@ [body |-> b.nodes]))])

\* a __try that lets any clause follow an except or an else
TryClause_anyOrder(S, xx, ctx, n, text, first) ==
    CASE first = "endtry" ->
            IF text # <<"endtry">> THEN serror(S, xx + 1, "invalid endtry statement")
            ELSE [err |-> <<>>, nodes |-> <<n>>, x |-> xx + 1, defn |-> <<>>]
      [] first = "finally" ->
            IF text # <<"finally">> THEN serror(S, xx + 1, "invalid finally statement")
            ELSE Finally(n, preppy(S, xx + 1, ctx, {"endtry"}, TRUE, FALSE))
      [] first = "else" ->
            IF text # <<"else">> THEN serror(S, xx + 1, "invalid else statement")
            ELSE TryOrelse(S, ctx, n,
                           preppy(S, xx + 1, ctx, {"except", "finally", "endtry", "else"}, FALSE, FALSE))
      [] first = "except" ->
            Except(S, xx, ctx, n, Header("except", text),
                   preppy(S, xx + 1, ctx, {"except", "finally", "endtry", "else"}, FALSE, TRUE))
      [] OTHER -> Fail("AttributeError", "__serr", xx)

\* one turn of the loop of __try, for the clause whose text is text and
\* whose first atom is first
TryClause(S, xx, ctx, n, text, first) ==
    CASE first = "endtry" ->
            IF text # <<"endtry">> THEN serror(S, xx + 1, "invalid endtry statement")
            ELSE [err |-> <<>>, nodes |-> <<n>>, x |-> xx + 1, defn |-> <<>>]
      [] first = "finally" ->
            IF text # <<"finally">> THEN serror(S, xx + 1, "invalid finally statement")
            ELSE Finally(n, preppy(S, xx + 1, ctx, {"endtry"}, TRUE, FALSE))
      [] first = "else" ->
            IF text # <<"else">> THEN serror(S, xx + 1, "invalid else statement")
            ELSE TryOrelse(S, ctx, n, preppy(S, xx + 1, ctx, {"finally", "endtry"}, FALSE, FALSE))
      [] first = "except" ->
            Except(S, xx, ctx, n, Header("except", text),
                   preppy(S, xx + 1, ctx,
                          IF text = <<"except">> THEN {"finally", "else", "endtry"}
                          ELSE {"except", "finally", "endtry", "else"},
                          FALSE, TRUE))
      [] OTHER -> Fail("AttributeError", "__serr", xx)

\* the first atom of a text, "" when it has none
First(text) == IF text = <<>> THEN "" ELSE text[1]

\* the loop of __try: the clause at the cursor and what follows it
TryClauses(S, xx, ctx, n) ==
    TryClause(S, xx, ctx, n, tokenText(S, xx, TRUE, TRUE), First(tokenText(S, xx, TRUE, TRUE)))

\* __try after its body is parsed
TryBody(S, ctx, n, body) ==
    IF body.err # <<>> THEN body
    ELSE TryClauses(S, body.x, ctx, [n EXCEPT !.body = body.nodes])

\* a __try whose body may end at endtry
try_closedByEndtry(S, xx, ctx) ==
    IF tokenText(S, xx, TRUE, TRUE) # <<"try">> THEN serror(S, xx, "invalid try statement")
    ELSE TryBody(S, ctx,
                 Node("Try", S, S.tokens[xx + 1],
                      [body |-> <<>>, handlers |-> <<>>, orelse |-> <<>>, finalbody |-> <<>>]),
                 preppy(S, xx + 1, ctx, {"except", "finally", "endtry"}, FALSE, TRUE))

\* __try
try(S, xx, ctx) ==
    IF tokenText(S, xx, TRUE, TRUE) # <<"try">> THEN serror(S, xx, "invalid try statement")
    ELSE TryBody(S, ctx,
                 Node("Try", S, S.tokens[xx + 1],
                      [body |-> <<>>, handlers |-> <<>>, orelse |-> <<>>, finalbody |-> <<>>]),
                 preppy(S, xx + 1, ctx, {"except", "finally"}, FALSE, TRUE))

\* the node of a statement with a header h and the block b in its field f
WithBlock(type, f, S, xx, h, b) ==
    IF h = <<>> THEN serror(S, xx, "invalid syntax")
    ELSE IF b.err # <<>> THEN b
    ELSE Ok(<<Node(type, S, S.tokens[xx + 1], h @@ (f :> b.nodes))>>, b.x)

\* __with
with(S, xx, ctx) ==
    WithBlock("With", "body", S, xx, Header("with", tokenText(S, xx, TRUE, TRUE)),
              preppy(S, xx + 1, ctx, {"endwith"}, TRUE, TRUE))

\* __tdef for the name, the parameters ps and the body of the sub-block
tdefOf(S, xx, name, ps, body) ==
    IF name \notin PyNames \/ ~ParsableParams(ps) THEN serror(S, xx, "invalid syntax")
    ELSE IF body.err # <<>> THEN body
    ELSE Ok(<<Node("FunctionDef", S, S.tokens[xx + 1],
                   [name |-> name, params |-> ps, args |-> Arguments(ps),
                    body |-> Append(body.nodes,
                                    Node("Return", S, S.tokens[body.x], [value |-> <<"''">>]))])>>,
            body.x)

\* the name in the text "def name(params)" whose blanks after def are w
DefName(text, w) == text[2 + w]

\* the parameters in the text "def name(params)"
DefParams(text, w) == Signature(Strip(SubSeq(text, 3 + w, Len(text))))

\* __tdef
tdef(S, xx, ctx) ==
    tdefOf(S, xx,
           DefName(tokenText(S, xx, TRUE, TRUE), WsRun(tokenText(S, xx, TRUE, TRUE), 1)),
           DefParams(tokenText(S, xx, TRUE, TRUE), WsRun(tokenText(S, xx, TRUE, TRUE), 1)),
           preppy(S, xx + 1, [inWhile |-> 0, inFor |-> 0, inTdef |-> ctx.inTdef + 1],
                  {"enddef"}, TRUE, TRUE))

\* __def for the parameters ps
defOf(S, xx, ps) ==
    IF ~ParsableParams(ps) THEN serror(S, xx, "invalid syntax")
    ELSE [err |-> <<>>, nodes |-> <<>>, x |-> xx + 1,
          defn |-> <<Node("FunctionDef", S, S.tokens[xx + 1],
                          [name |-> "get", params |-> ps, args |-> Arguments(ps)])>>]

\* __def
def(S, xx) == defOf(S, xx, Signature(Strip(Tail(tokenText(S, xx, TRUE, TRUE)))))

\* directive words that are names to Python: the text of a tag that holds
\* one of them alone is an expression
DirectiveNames ==
    {"script", "eval", "match", "case", "endscript", "endeval", "endif", "endfor",
     "endwhile", "endtry", "endwith", "enddef", "endmatch"}

\* __rparse(text) returns an expression statement
IsScriptExpr(text) == IsExpr(text) \/ (Len(text) = 1 /\ text[1] \in DirectiveNames)

\* __script and __eval for the end tag end and the stripped text of the
\* token after the cursor
scriptOf(S, xx, mode, end, text) ==
    IF S.tokens[xx + 2].kind = end THEN Ok(<<>>, xx + 2)
    ELSE IF ~(text = <<>> \/ IsScriptExpr(text) \/ (Len(text) = 1 /\ text[1] \in StmtAtoms))
    THEN serror(S, xx + 1, "invalid syntax")
    ELSE IF xx + 2 >= Len(S.tokens) THEN Fail("IndexError", "list index out of range", xx + 2)
    ELSE IF S.tokens[xx + 3].kind # end THEN serror(S, xx + 2, "end expected")
    ELSE IF text = <<>> THEN Ok(<<>>, xx + 3)
    ELSE IF mode = "eval"
    THEN Ok(<<Node("swrite", S, S.tokens[xx + 2],
                   [value |-> <<"?">>, call_args |-> <<[type |-> "Expr", value |-> text]>>])>>, xx + 3)
    ELSE IF IsScriptExpr(text)
    THEN Ok(<<Node("Expr", S, S.tokens[xx + 2], [value |-> text])>>, xx + 3)
    ELSE Ok(<<Node("Assign", S, S.tokens[xx + 2], [stmt |-> text[1]])>>, xx + 3)

\* __script and __eval
script(S, xx, mode) ==
    scriptOf(S, xx, mode, IF mode = "script" THEN "endscript" ELSE "endeval",
             Strip(tokenText(S, xx + 1, FALSE, FALSE)))

\* one turn of the loop of __case after the header h and the body are parsed
CaseOf(S, xx, ctx, aR, h, body) ==
    IF h = <<>> THEN serror(S, xx, "invalid syntax")
    ELSE IF body.err # <<>> THEN body
    ELSE Cases(S, body.x, ctx,
               Append(aR, Node("match_case", S, S.tokens[xx + 1], h @@ [body |-> body.nodes])))

\* the while loop of __case: the case tokens that follow one another
Cases(S, xx, ctx, aR) ==
    IF S.tokens[xx + 1].kind # "case" THEN Ok(aR, xx)
    ELSE CaseOf(S, xx, ctx, aR, Header("case", tokenText(S, xx, TRUE, TRUE)),
                preppy(S, xx + 1, ctx, {"case", "endmatch"}, FALSE, TRUE))

RECURSIVE SkipBlank(_, _)
\* the loop of __match over the constants that follow the match tag: the
\* cursor after them, or -1 when one of them is not blank
SkipBlank(S, xx) ==
    IF S.tokens[xx + 1].kind # "const" THEN xx
    ELSE IF Strip(tokenText(S, xx, FALSE, FALSE)) # <<>> THEN -1
    ELSE SkipBlank(S, xx + 1)

\* __match after the header h is parsed and the blank constants skipped
\* up to the cursor at
matchOf(S, xx, ctx, h, at) ==
    IF h = <<>> THEN serror(S, xx, "invalid syntax")
    ELSE IF at = -1 THEN serror(S, xx + 1, "unexpected text in start of match")
    ELSE WithBlock("Match", "cases", S, xx, h, preppy(S, at, ctx, {"endmatch"}, TRUE, TRUE))

\* __match
match(S, xx, ctx) ==
    matchOf(S, xx, ctx, Header("match", tokenText(S, xx, TRUE, TRUE)), SkipBlank(S, xx + 1))

\* getattr(self, mangle+t)()
Dispatch(t, S, xx, ctx) ==
    CASE t = "const" -> const(S, xx)
      [] t = "expr" -> expr(S, xx)
      [] t = "while" -> while(S, xx, ctx)
      [] t = "if" -> IfChain(S, xx, ctx)
      [] t = "for" -> for(S, xx, ctx)
      [] t \in {"script", "eval"} -> script(S, xx, t)
      [] t = "def" -> def(S, xx)
      [] t \in {"continue", "break"} -> break(S, xx, ctx, t)
      [] t = "try" -> try(S, xx, ctx)
      [] t = "raise" -> raise(S, xx)
      [] t = "with" -> with(S, xx, ctx)
      [] t \in {"import", "from", "assert"} -> import(S, xx, t)
      [] t = "tdef" -> tdef(S, xx, ctx)
      [] t = "return" -> return(S, xx, ctx)
      [] t = "match" -> match(S, xx, ctx)
      [] t = "case" -> Cases(S, xx, ctx, <<>>)

\* the nodes below a node, whatever field holds them
Children(n) ==
    LET f(k) == IF k \in DOMAIN n THEN n[k] ELSE <<>> IN
    f("body") \o f("orelse") \o f("handlers") \o f("finalbody") \o f("cases")

RECURSIVE Malformed_ast(_)
\* compile(ast, filename, 'exec') raises TypeError on these trees: a
\* statement where an expression belongs (what __eval builds), or
\* something other than a case directly below a match
Malformed_ast(nodes) ==
    \E j \in 1..Len(nodes) :
        \/ nodes[j].type = "swrite" /\ "call_args" \in DOMAIN nodes[j]
        \/ nodes[j].type = "Match" /\ \E k \in 1..Len(nodes[j].cases) : nodes[j].cases[k].type # "match_case"
        \/ Malformed_ast(Children(nodes[j]))

RECURSIVE DuplicateArgument(_)
\* compile() raises SyntaxError on a function whose parameters share a name
DuplicateArgument(nodes) ==
    \E j \in 1..Len(nodes) :
        \/ nodes[j].type = "FunctionDef" /\ ~ValidParams(nodes[j].params)
        \/ DuplicateArgument(Children(nodes[j]))

RECURSIVE EmptyTry(_)
\* compile() raises ValueError on a try that has neither a handler nor a
\* statement in its finally
EmptyTry(nodes) ==
    \E j \in 1..Len(nodes) :
        IF nodes[j].type = "Try" /\ nodes[j].handlers = <<>> /\ nodes[j].finalbody = <<>>
        THEN TRUE
        ELSE EmptyTry(Children(nodes[j]))

\* the nodes in the field k of the node n
Field(n, k) == IF k \in DOMAIN n THEN n[k] ELSE <<>>

RECURSIVE BreakOutsideLoop(_, _)
\* compile() raises SyntaxError on a break or continue that the body of no
\* loop of its function encloses: the else of a loop is not its body
BreakOutsideLoop(nodes, inLoop) ==
    \E j \in 1..Len(nodes) :
        CASE nodes[j].type \in {"Break", "Continue"} -> ~inLoop
          [] nodes[j].type \in {"For", "While"} ->
                IF BreakOutsideLoop(Field(nodes[j], "body"), TRUE) THEN TRUE
                ELSE BreakOutsideLoop(Field(nodes[j], "orelse"), inLoop)
          [] nodes[j].type = "FunctionDef" -> BreakOutsideLoop(Field(nodes[j], "body"), FALSE)
          [] OTHER -> BreakOutsideLoop(Children(nodes[j]), inLoop)

\* what compile() leaves in the parser when it raises err
ParserError(tokens, defSeen, err) ==
    [phase |-> "error", _tokens |-> tokens, _defSeen |-> defSeen, nodes |-> <<>>,
     _fnc_defn |-> <<>>, err |-> err]

\* __get_ast and the built-in compile, for the tokens lexed and the tree r
\* that __preppy returned.  The tree of a template with a def is compiled
\* here, that of a template without one only when it is run
get_ast(lexed, r) ==
    IF r.err # <<>> THEN ParserError(lexed.tokens, lexed.defSeen, r.err)
    ELSE IF lexed.defSeen = 1 /\ Malformed_ast(r.nodes)
    THEN ParserError(lexed.tokens, lexed.defSeen, <<"TypeError", "expected some sort of expr", 0>>)
    ELSE IF lexed.defSeen = 1 /\ EmptyTry(r.nodes)
    THEN ParserError(lexed.tokens, lexed.defSeen,
                     <<"ValueError", "Try has neither except handlers nor finalbody", 0>>)
    ELSE IF \/ DuplicateArgument(r.defn)
            \/ lexed.defSeen = 1 /\ DuplicateArgument(r.nodes)
            \/ lexed.defSeen = 1 /\ BreakOutsideLoop(r.nodes, FALSE)
    THEN ParserError(lexed.tokens, lexed.defSeen, <<"SyntaxError", "invalid syntax", 0>>)
    ELSE [phase |-> "compiled", _tokens |-> lexed.tokens, _defSeen |-> lexed.defSeen,
          nodes |-> r.nodes, _fnc_defn |-> r.defn, err |-> <<>>]

\* __parse: the statement tree of the tokens lexed, or the lexer's error
parse(text, lexed) ==
    IF lexed.raised THEN ParserError(<<>>, lexed.defSeen, lexed.err)
    ELSE get_ast(lexed, preppy([text |-> text, tokens |-> lexed.tokens], 0, TopContext,
                               {"eof"}, TRUE, FALSE))

\* compile(): the tokens, the statement tree, _defSeen and _fnc_defn, or
\* the error raised
Compiled(text) == parse(text, tokenize(text))

\* --------------------------------------------------- compiling a template
\* PreppyParser(source, filename).compile(): __parse, __get_ast and the
\* built-in compile
compile ==
    /\ P.phase = "none"
    /\ P' = Compiled(source)
    /\ UNCHANGED <<cacheVars, caller, wsVars, source, ran>>

RECURSIVE Join(_)
\* ''.join(chunks)
Join(chunks) == IF chunks = <<>> THEN <<>> ELSE Head(chunks) \o Join(Tail(chunks))

\* the texts made of at most n of the given chunks
Joined(chunks, n) == {Join(s) : s \in UNION {[1..k -> chunks] : k \in 0..n}}

\* a parser is constructed on one of the given texts; nothing else exists
InitTemplate(texts) ==
    /\ InitNoCache /\ InitCallers /\ InitWs
    /\ source \in texts
    /\ P = NoParser
    /\ ran = NoRun

\* {{ body }}
Tag(body) == <<STARTDELIMITER>> \o body \o <<ENDDELIMITER>>

\* texts for the lexer: delimiters that need not pair up, a literal, an
\* expression, a signature and a statement
LexChunks ==
    {<<STARTDELIMITER>>, <<ENDDELIMITER>>, <<X>>, <<"a">>,
     Tag(<<"def", "(", "a", ")">>), Tag(<<"if", SP, "a">>), Tag(<<"endif">>)}

InitLex == InitTemplate(Joined(LexChunks, MaxLexChunks))

NextLex == compile

SpecLex == InitLex /\ [][NextLex]_vars

\* ------------------------------------------------ headers with a colon
\* the keywords that open a body; a named block, def name(...), opens one too
BodyOpeners == {"if", "elif", "while", "for", "try", "with", "match", "case"}

OpensBody(body) ==
    LET s == Strip(body) IN
    /\ s # <<>>
    /\ \/ s[1] \in BodyOpeners
       \/ s[1] = "def" /\ Len(s) >= 3 /\ IsWs(s[2]) /\ s[2 + WsRun(s, 1)] \in PyNames

\* atom j of the text is the colon that ends the header of a tag that
\* opens a body
HeaderColon(text, j) ==
    /\ text[j] = ":"
    /\ \E i \in 1..(j - 1) : \E l \in (j + 1)..Len(text) :
          /\ text[i] = STARTDELIMITER
          /\ text[l] = ENDDELIMITER
          /\ \A k \in (i + 1)..(l - 1) : text[k] \notin {STARTDELIMITER, ENDDELIMITER}
          /\ \A k \in (j + 1)..(l - 1) : IsWs(text[k])
          /\ OpensBody(SubSeq(text, i + 1, l - 1))

RECURSIVE WithoutColonsFrom(_, _)
WithoutColonsFrom(text, j) ==
    IF j > Len(text) THEN <<>>
    ELSE (IF HeaderColon(text, j) THEN <<>> ELSE <<text[j]>>) \o WithoutColonsFrom(text, j + 1)

\* the same template with every header written without its colon
WithoutColons(text) == WithoutColonsFrom(text, 1)

RECURSIVE Shape(_)
\* a statement tree without the positions of its nodes
Shape(nodes) ==
    [j \in 1..Len(nodes) |->
        [f \in DOMAIN nodes[j] \ {"lineno", "col_offset"} |->
            IF f \in {"body", "orelse", "handlers", "finalbody", "cases"}
            THEN Shape(nodes[j][f])
            ELSE nodes[j][f]]]

\* one construct of each kind that opens a body, its headers ending in h
\* and h2 (nothing, or a colon)
Constructs(h, h2) ==
    {Tag(<<"if", SP, "a">> \o h) \o <<X>> \o Tag(<<"elif", SP, "b">> \o h2) \o <<"y">> \o Tag(<<"endif">>),
     Tag(<<"while", SP, "0">> \o h) \o <<X>> \o Tag(<<"endwhile">>),
     Tag(<<"for", SP, "i", SP, "in", SP, "(1,)">> \o h) \o <<X>> \o Tag(<<"endfor">>),
     Tag(<<"try">> \o h) \o <<X>> \o Tag(<<"except">> \o h2) \o <<"y">> \o Tag(<<"endtry">>),
     Tag(<<"with", SP, "a">> \o h) \o <<X>> \o Tag(<<"endwith">>),
     Tag(<<"def", SP, "f", "(", "a", ")">> \o h) \o <<X>> \o Tag(<<"enddef">>),
     Tag(<<"match", SP, "a">> \o h) \o Tag(<<"case", SP, "1">> \o h2) \o <<X>> \o Tag(<<"endmatch">>)}

ColonChunks == UNION {Constructs(h, h2) : h \in {<<>>, <<":">>}, h2 \in {<<>>, <<":">>}}

InitColon == InitTemplate(Joined(ColonChunks, MaxConstructs))

NextColon == compile

SpecColon == InitColon /\ [][NextColon]_vars

\* ------------------------------------------------------ Python values
\* The values a template handles: None, small integers, strings (sequences
\* of atoms), tuples of values, the empty string dnl() and dws() return,
\* and the objects the preamble passes to the template's code.
None == [t |-> "None", v |-> <<>>]
PyInt(k) == [t |-> "int", v |-> k]
Str(s) == [t |-> "str", v |-> s]
Tuple(s) == [t |-> "tuple", v |-> s]
Ignore == [t |-> "ignore", v |-> <<>>]
Internal(n) == [t |-> "internal", v |-> n]

\* the value of a literal of an expression
ConstValue(a) ==
    CASE a = "0" -> PyInt(0)
      [] a = "1" -> PyInt(1)
      [] a = "''" -> Str(<<>>)
      [] a = "()" -> Tuple(<<>>)
      [] a = "(1,)" -> Tuple(<<PyInt(1)>>)
      [] a = "(1,2)" -> Tuple(<<PyInt(1), PyInt(2)>>)

\* bool(v)
Truth(v) ==
    CASE v.t = "int" -> v.v # 0
      [] v.t \in {"str", "tuple", "ignore"} -> v.v # <<>>
      [] v.t = "None" -> FALSE
      [] OTHER -> TRUE

\* ------------------------------------------------------ quote functions
\* A quote function is known by its name.  Q, QB, L and LB are functions
\* of the caller, the others belong to preppy; QB, LB, bStdConv, asUtf8
\* and bytes return bytes, the others text.
NoFunc == "None"
CallerFuncs == {"Q", "QB", "L", "LB"}
Funcs == CallerFuncs \cup {"uStdConv", "bStdConv", "asUtf8", "asUnicode"}

\* isinstance(f(''), bytesT)
ReturnsBytes(f) == f \in {"QB", "LB", "bStdConv", "asUtf8", "bytesT"}

\* a pair whose derived member is of the other kind
get_conv_crossed(qf, lqf, b) ==
    IF qf # NoFunc /\ lqf = NoFunc
    THEN <<qf, IF ReturnsBytes(qf) THEN "asUnicode" ELSE "asUtf8">>
    ELSE IF lqf # NoFunc /\ qf = NoFunc
    THEN <<IF ReturnsBytes(lqf) THEN "uStdConv" ELSE "bStdConv", lqf>>
    ELSE IF qf = NoFunc /\ lqf = NoFunc
    THEN IF b THEN <<"bStdConv", "bytesT">> ELSE <<"uStdConv", "unicodeT">>
    ELSE <<qf, lqf>>

\* __get_conv__(qf, lqf, b): the pair (quoteFunc, lquoteFunc)
get_conv(qf, lqf, b) ==
    IF qf # NoFunc /\ lqf = NoFunc
    THEN <<qf, IF ReturnsBytes(qf) THEN "asUtf8" ELSE "asUnicode">>
    ELSE IF lqf # NoFunc /\ qf = NoFunc
    THEN <<IF ReturnsBytes(lqf) THEN "bStdConv" ELSE "uStdConv", lqf>>
    ELSE IF qf = NoFunc /\ lqf = NoFunc
    THEN IF b THEN <<"bStdConv", "bytesT">> ELSE <<"uStdConv", "unicodeT">>
    ELSE <<qf, lqf>>

\* a call of __get_conv__
CallGetConv ==
    \E qf \in Funcs \cup {NoFunc}, lqf \in Funcs \cup {NoFunc}, b \in BOOLEAN :
        /\ ran' = [kind |-> "get_conv", qf |-> qf, lqf |-> lqf, b |-> b,
                   ret |-> get_conv(qf, lqf, b)]
        /\ UNCHANGED <<cacheVars, caller, wsVars, source, P>>

NextConv == CallGetConv

SpecConv == InitController /\ [][NextConv]_vars

\* a piece of output: the function applied and what it was applied to
Piece(f, arg) == [f |-> f, arg |-> arg]

\* str(v) as uStdConv and the caller's functions see it
Repr(v) ==
    CASE v.t = "int" -> <<CASE v.v = 0 -> "0" [] v.v = 1 -> "1" [] v.v = 2 -> "2"
                            [] v.v = 3 -> "3" [] OTHER -> "4">>
      [] v.t = "str" -> v.v
      [] v.t = "tuple" -> IF v.v = <<>> THEN <<"()">>
                          ELSE IF Len(v.v) = 1 THEN <<"(1,)">> ELSE <<"(1,2)">>
      [] v.t \in {"None", "ignore"} -> <<>>
      [] OTHER -> <<"<object>">>

\* the characters of a piece: what preppy's functions return, and
\* name(...) for a function of the caller
Rendered(p) ==
    IF p.f \in CallerFuncs THEN <<p.f, "(">> \o Repr(p.arg) \o <<")">> ELSE Repr(p.arg)

RECURSIVE Text(_)
\* the characters of a sequence of pieces
Text(out) == IF out = <<>> THEN <<>> ELSE Rendered(Head(out)) \o Text(Tail(out))

\* ------------------------------------------------ executing the tree
\* The state of an execution of the template's code: the local names, the
\* pieces handed to __write__ (or appended, in get), the controller's ws,
\* how control leaves the statement ("ok", "break", "continue", "raise",
\* or "diverges" for a loop that does not end within MaxIterations
\* turns), the exception raised and the turns of while loops left.
Frame(env) ==
    [env |-> env, out |-> <<>>, ws |-> 0, sig |-> "ok", err |-> "", fuel |-> MaxIterations]

Raised(R, kind) == [R EXCEPT !.sig = "raise", !.err = kind]

\* the value of an expression: a literal or a name
Eval(e, env) ==
    IF Len(e) = 1 /\ e[1] \in Consts THEN [err |-> "", v |-> ConstValue(e[1])]
    ELSE IF Len(e) = 1 /\ e[1] \in DOMAIN env THEN [err |-> "", v |-> env[e[1]]]
    ELSE [err |-> "NameError", v |-> None]

\* the statements this model executes; a call name(arg) is not among the
\* expressions it evaluates
RECURSIVE Executable(_)
Executable(nodes) ==
    \A j \in 1..Len(nodes) :
        LET n == nodes[j]
            plain(f) == IF f \in DOMAIN n THEN Len(n[f]) <= 1 ELSE TRUE
            value == IF plain("value") THEN TRUE ELSE n.value[1] = "__wss__"
        IN
        /\ n.type \in {"write", "swrite", "Pass", "Expr", "Assign", "If", "For", "While",
                       "Break", "Continue"}
        /\ value
        /\ plain("test") /\ plain("iter")
        /\ Executable(Children(n))

RECURSIVE ExecSeq(_, _, _), ExecNode(_, _, _), ExecForLoop(_, _, _, _), ExecWhile(_, _, _)
RECURSIVE ExecFor(_, _, _, _)

\* a block: its statements in turn, until one of them leaves it
ExecSeq(nodes, R, q) ==
    IF nodes = <<>> \/ R.sig # "ok" THEN R
    ELSE ExecSeq(Tail(nodes), ExecNode(Head(nodes), R, q), q)

\* the turns of a for loop over items: "ok" when the items are exhausted
ExecForLoop(n, items, R, q) ==
    IF items = <<>> THEN R
    ELSE LET R2 == ExecSeq(n.body, [R EXCEPT !.env = (n.target[1] :> Head(items)) @@ @], q) IN
         IF R2.sig \in {"ok", "continue"}
         THEN ExecForLoop(n, Tail(items), [R2 EXCEPT !.sig = "ok"], q)
         ELSE R2

\* a for loop whose else body runs only when there was nothing to iterate
ExecFor_elseWhenEmpty(n, items, R, q) ==
    LET L == ExecForLoop(n, items, R, q) IN
    IF items = <<>> THEN ExecSeq(n.orelse, L, q)
    ELSE IF L.sig = "break" THEN [L EXCEPT !.sig = "ok"]
    ELSE L

\* for target in items: body else: orelse
ExecFor(n, items, R, q) ==
    LET L == ExecForLoop(n, items, R, q) IN
    IF L.sig = "ok" THEN ExecSeq(n.orelse, L, q)
    ELSE IF L.sig = "break" THEN [L EXCEPT !.sig = "ok"]
    ELSE L

\* while test: body else: orelse
ExecWhile(n, R, q) ==
    LET t == Eval(n.test, R.env) IN
    IF t.err # "" THEN Raised(R, t.err)
    ELSE IF ~Truth(t.v) THEN ExecSeq(n.orelse, R, q)
    ELSE IF R.fuel = 0 THEN [R EXCEPT !.sig = "diverges"]
    ELSE LET R2 == ExecSeq(n.body, [R EXCEPT !.fuel = @ - 1], q) IN
         IF R2.sig \in {"ok", "continue"} THEN ExecWhile(n, [R2 EXCEPT !.sig = "ok"], q)
         ELSE IF R2.sig = "break" THEN [R2 EXCEPT !.sig = "ok"]
         ELSE R2

\* one statement; q is the pair (__qFunc__, __lqFunc__)
ExecNode(n, R, q) ==
    CASE n.type = "write" ->
            \* __write__(x): __lqFunc__(__wss__.c(x))
            LET f == FilterLiteral(R.ws, n.text) IN
            IF f[1] THEN Raised([R EXCEPT !.ws = 0], "IndexError")
            ELSE [R EXCEPT !.ws = 0, !.out = Append(@, Piece(q[2], Str(f[2])))]
      [] n.type = "swrite" ->
            \* __swrite__(x): __qFunc__(__wss__.x(x))
            IF n.value = <<"__wss__", ".dnl">>
            THEN [R EXCEPT !.ws = 1, !.out = Append(@, Piece(q[1], Ignore))]
            ELSE IF n.value = <<"__wss__", ".dws">>
            THEN [R EXCEPT !.ws = 2, !.out = Append(@, Piece(q[1], Ignore))]
            ELSE LET e == Eval(n.value, R.env) IN
                 IF e.err # "" THEN Raised(R, e.err)
                 ELSE [R EXCEPT !.ws = 0, !.out = Append(@, Piece(q[1], e.v))]
      [] n.type = "Pass" -> R
      [] n.type = "Expr" ->
            LET e == Eval(n.value, R.env) IN
            IF e.err # "" THEN Raised(R, e.err) ELSE R
      [] n.type = "Assign" ->
            IF n.stmt = "n+=1"
            THEN IF "n" \notin DOMAIN R.env THEN Raised(R, "NameError")
                 ELSE IF R.env["n"].t # "int" THEN Raised(R, "TypeError")
                 ELSE [R EXCEPT !.env = ("n" :> PyInt(R.env["n"].v + 1)) @@ @]
            ELSE [R EXCEPT !.env = ("n" :> ConstValue(AssignedValue(n.stmt))) @@ @]
      [] n.type = "If" ->
            LET t == Eval(n.test, R.env) IN
            IF t.err # "" THEN Raised(R, t.err)
            ELSE ExecSeq(IF Truth(t.v) THEN n.body ELSE n.orelse, R, q)
      [] n.type = "For" ->
            LET e == Eval(n.iter, R.env) IN
            IF e.err # "" THEN Raised(R, e.err)
            ELSE IF e.v.t # "tuple" THEN Raised(R, "TypeError")
            ELSE ExecFor(n, e.v.v, R, q)
      [] n.type = "While" -> ExecWhile(n, R, q)
      [] n.type = "Break" -> [R EXCEPT !.sig = "break"]
      [] n.type = "Continue" -> [R EXCEPT !.sig = "continue"]

\* ------------------------------------------- run(dictionary, ...)
\* keyword.iskeyword and str.isidentifier on the atoms of a key
PyKeywords ==
    {"if", "elif", "else", "while", "for", "in", "continue", "break", "try", "except",
     "finally", "raise", "with", "import", "from", "assert", "return", "def", "as"}

ReservedNames ==
    {"dictionary", "__write__", "__swrite__", "outputfile", "__save_sys_stdout__", "__wss__"}

IdentifierAtoms == PyNames \cup PyKeywords \cup ReservedNames \cup {"__debug__"}

\* __preppy__vlhs__(s)
vlhs(k) ==
    /\ Len(Strip(k)) = 1
    /\ Strip(k)[1] \in IdentifierAtoms
    /\ Strip(k)[1] \notin PyKeywords

\* ast.parse('%s=dictionary[%r]' % (k,k)) succeeds, for a key vlhs took:
\* the target is a name, nothing but line feeds before it, nothing but
\* blanks after it
AssignmentParses(k) ==
    LET first == CHOOSE j \in 1..Len(k) : ~IsWs(k[j]) IN
    /\ Strip(k)[1] \notin PyKeywords
    /\ \A j \in 1..(first - 1) : k[j] = NL
    /\ \A j \in (first + 1)..Len(k) : k[j] = SP

\* lines 1054-1060: the name the loop makes a local of for key k, if any
Target(k) ==
    IF ~(Len(k) = 1 /\ k[1] \in ReservedNames) /\ vlhs(k) /\ AssignmentParses(k)
    THEN <<Strip(k)[1]>>
    ELSE <<>>

\* the keys of a dictionary, and a dictionary: its items in order, the
\* value of the j-th being j
Keys ==
    {<<"a">>, <<"a", SP>>, <<SP, "a">>, <<"n">>, <<"1">>, <<"1.01">>, <<"if">>,
     <<"dictionary">>, <<"__wss__">>, <<"__debug__">>}

Dictionaries ==
    {[j \in 1..Len(ks) |-> [key |-> ks[j], value |-> PyInt(j)]] :
        ks \in {s \in UNION {[1..m -> Keys] : m \in 0..MaxKeys} :
                    \A i, j \in 1..Len(s) : i # j => s[i] # s[j]}}

\* the arguments of __code__
CodeArguments == [n \in ReservedNames |-> Internal(n)]

NoLocals == [n \in {} |-> None]

RECURSIVE Exposed(_)
\* the assignments the loop puts in front of the template's code, run in
\* turn: each is inserted at the front, so the first key's runs last
Exposed(d) ==
    IF d = <<>> THEN NoLocals
    ELSE IF Target(Head(d).key) = <<>> THEN Exposed(Tail(d))
    ELSE (Target(Head(d).key)[1] :> Head(d).value) @@ Exposed(Tail(d))

\* what a call of run or get leaves behind: its arguments, the pair of
\* quote functions in use, the locals its prologue made, the pieces it
\* wrote (run) or returned joined (get) and the exception it raised
Call(kind, args, kwds, quoteFunc, lquoteFunc, locals, out, raised) ==
    [kind |-> kind, args |-> args, kwds |-> kwds, quoteFunc |-> quoteFunc,
     lquoteFunc |-> lquoteFunc, pair |-> get_conv(quoteFunc, lquoteFunc, FALSE),
     locals |-> locals, out |-> out, raised |-> raised]

\* run(dictionary, __write__=buf.append, quoteFunc=..., lquoteFunc=...) of
\* the module of a compiled template.  A call leaves nothing behind in the
\* module (the tree is unpickled anew on line 1052, the controller and the
\* locals are made by the call), so one call per template is followed.
run ==
    \E dictionary \in Dictionaries, quoteFunc \in {NoFunc, "Q", "QB"},
       lquoteFunc \in {NoFunc, "L", "LB"} :
        LET q == get_conv(quoteFunc, lquoteFunc, FALSE)
            \* compile(M, __preppy_filename__, 'exec') on line 1064
            failed == IF P._defSeen = 1 THEN "ValueError"
                      ELSE IF Malformed_ast(P.nodes) THEN "TypeError"
                      ELSE IF EmptyTry(P.nodes) THEN "ValueError"
                      ELSE IF \/ \E j \in 1..Len(dictionary) :
                                    Target(dictionary[j].key) = <<"__debug__">>
                              \/ DuplicateArgument(P.nodes)
                              \/ BreakOutsideLoop(P.nodes, FALSE)
                      THEN "SyntaxError"
                      ELSE ""
            locals == IF failed # "" THEN NoLocals ELSE Exposed(dictionary) @@ CodeArguments
            R == IF failed # "" THEN Raised(Frame(NoLocals), failed)
                 ELSE ExecSeq(P.nodes, Frame(locals), q)
        IN
        /\ P.phase = "compiled"
        /\ ran = NoRun
        /\ Executable(P.nodes)
        /\ R.sig # "diverges"
        /\ ran' = Call("run", dictionary, {}, quoteFunc, lquoteFunc, locals, R.out, R.err)
        /\ UNCHANGED <<cacheVars, caller, wsVars, source, P>>

\* ------------------------------------------------------- get(...)
\* the keywords a caller passes besides the two reserved ones, each with
\* the value 1
KeywordNames == {"a", "b", "z"}

\* the values passed by position: the j-th is j
Positional == {[j \in 1..m |-> PyInt(j)] : m \in 0..MaxArgs}

\* the names of the parameters of F other than *r and **k
Declared(F) ==
    {ParamName(F.args[j]) : j \in 1..Len(F.args)}
        \cup {ParamName(F.kwonlyargs[j]) : j \in 1..Len(F.kwonlyargs)}

\* Python binds the arguments of get(*pos, **kw) to the parameters F:
\* the TypeError it raises, or the locals
Bound(F, pos, kw) ==
    LET names == [j \in 1..Len(F.args) |-> ParamName(F.args[j])]
        byPosition == {names[j] : j \in 1..Min(Len(pos), Len(names))}
        declared == Declared(F)
        defaulted == {"b" : j \in {i \in 1..Len(F.args) : F.args[i] = "b=1"}}
                        \cup {"b" : j \in {i \in 1..Len(F.kwonlyargs) : F.kwonlyargs[i] = "b=1"}}
        given == byPosition \cup (kw \cap declared)
    IN
    IF \/ Len(pos) > Len(names) /\ F.vararg = ""
       \/ byPosition \cap kw # {}
       \/ declared \ (given \cup defaulted) # {}
    THEN [err |-> "TypeError", env |-> NoLocals]
    ELSE [err |-> "",
          env |-> [n \in declared |->
                      IF n \in byPosition THEN pos[CHOOSE j \in 1..Len(names) : names[j] = n]
                      ELSE PyInt(1)]
                  @@ (IF F.vararg = "" THEN NoLocals
                      ELSE F.vararg :> Tuple(SubSeq(pos, Len(names) + 1, Len(pos))))]

\* ''.join(pieces) raises TypeError when a piece is bytes
Joins(out) == \A j \in 1..Len(out) : ~ReturnsBytes(out[j].f)

\* get(*pos, **kw, __quoteFunc__=..., __lquoteFunc__=...) of the module of a
\* compiled template: the binding, lines 983-994 and the template's code
get ==
    \E pos \in Positional, kw \in SUBSET KeywordNames, quoteFunc \in {NoFunc, "Q", "QB"},
       lquoteFunc \in {NoFunc, "L", "LB"} :
        LET F == P._fnc_defn[1].args
            q == get_conv(quoteFunc, lquoteFunc, FALSE)
            b == Bound(F, pos, kw)
            others == kw \ Declared(F)
            \* the CKWA statement, when the signature has no **
            unexpected == F.kwarg = "" /\ others # {}
            locals == IF b.err # "" \/ unexpected THEN NoLocals
                      ELSE b.env @@ ((IF F.kwarg = "" THEN "__kwds__" ELSE F.kwarg)
                                         :> [t |-> "dict", v |-> others])
            R == IF b.err # "" \/ unexpected THEN Raised(Frame(NoLocals), "TypeError")
                 ELSE ExecSeq(P.nodes, Frame(locals), q)
            joined == R.sig = "ok" /\ Joins(R.out)
        IN
        /\ P.phase = "compiled"
        /\ P._defSeen = 1
        /\ ran = NoRun
        /\ Executable(P.nodes)
        /\ R.sig # "diverges"
        /\ ran' = Call("get", pos, kw, quoteFunc, lquoteFunc, locals,
                       IF joined THEN R.out ELSE <<>>,
                       IF R.sig = "ok" /\ ~Joins(R.out) THEN "TypeError" ELSE R.err)
        /\ UNCHANGED <<cacheVars, caller, wsVars, source, P>>

\* ------------------------------------------------ templates that are run
\* {{for i in e}}X{{else}}Y{{endfor}}, with {{break}} after X when brk
ForElse(e, brk) ==
    Tag(<<"for", SP, "i", SP, "in", SP, e>>) \o <<X>> \o (IF brk THEN Tag(<<"break">>) ELSE <<>>)
        \o Tag(<<"else">>) \o <<"Y">> \o Tag(<<"endfor">>)

\* {{while n}}X...{{else}}Y{{endwhile}}: the body ends the loop by {{break}}
\* or by setting n to 0
WhileElse(brk) ==
    Tag(<<"while", SP, "n">>) \o <<X>>
        \o (IF brk THEN Tag(<<"break">>)
            ELSE Tag(<<"script">>) \o <<"n=0">> \o Tag(<<"endscript">>))
        \o Tag(<<"else">>) \o <<"Y">> \o Tag(<<"endwhile">>)

PlainTemplates ==
    {ForElse(e, brk) : e \in {"()", "(1,)", "(1,2)"}, brk \in BOOLEAN}
        \cup {WhileElse(brk) : brk \in BOOLEAN}
        \cup {<<"Hello">> \o Tag(<<"a">>) \o <<SP, X>> \o Tag(<<"n">>),
              Tag(<<"a">>),
              <<X>> \o Tag(<<".dnl">>) \o <<SP, NL, "y">> \o Tag(<<"a">>)}

\* {{def(params)}} and a body that uses the parameters
CallableTemplates ==
    {Tag(<<"def", "(", "a", ")">>) \o <<"Hello">> \o Tag(<<"a">>),
     Tag(<<"def", "(", "a", ",", "b=1", ")">>) \o Tag(<<"a">>) \o <<X>> \o Tag(<<"b">>),
     Tag(<<"def", "(", "a", ",", "**k", ")">>) \o <<X>> \o Tag(<<"a">>),
     Tag(<<"def", "(", "*r", ",", "b", ")">>) \o <<X>> \o Tag(<<"b">>),
     Tag(<<"def", "(", ")">>) \o <<X>>}

InitRun == InitTemplate(PlainTemplates \cup CallableTemplates)

NextRun == compile \/ run \/ get

SpecRun == InitRun /\ [][NextRun]_vars

\* ------------------------------------------------- reading a persisted file
\* the checksum the code object of a loadable n.pyc assigns to __checksum__
PersistedChecksum(f) == f.data[HeaderLen + 1][2]

\* the build timestamp line 1289 wrote into the header of a loadable n.pyc
EmbeddedTimestamp(f) == f.data[HeaderLen - 1][2]

\* the step is a getModule call that has returned or raised
FileCall(n) == last'.kind = "file" /\ last'.name = n

TextCall(t) == last'.kind = "text" /\ last'.sourcetext = <<t>>

\* a new process: both caches are empty again
FreshProcess ==
    /\ last' = NoCall
    /\ FILE_MODULES' = [n \in Names |-> NoModule]
    /\ SOURCE_MODULES' = [t \in Texts |-> NoModule]

\* ------------------------------------------------------------------ claims

\* C1, as stated: once a text-backed getModule call for text T has succeeded,
\* a following text-backed call for the same T is served from the cache: it
\* returns the artifact of the first call and neither rebuilds nor writes.
C1_AnySuccessIsCached ==
    [][(/\ last.kind = "text"
        /\ last.outcome \in {"rebuilt", "cached"}
        /\ last'.kind = "text"
        /\ last'.sourcetext = last.sourcetext)
       => (/\ last'.outcome = "cached"
           /\ last'.ret = last.ret
           /\ pyc' = pyc)]_vars

\* C1, amended: a successful text-backed call made with importModule set
\* stores its artifact under T; the entry stays for the life of the process;
\* and every text-backed call that finds an entry for T returns exactly that
\* artifact, whose checksum is the checksum of T, without rebuilding and
\* without touching the disk or either cache (whatever force says).
C1_ImportedTextIsCached ==
    [][\A t \in Texts :
        /\ (TextCall(t) /\ SOURCE_MODULES[t] # NoModule)
              => (/\ last'.outcome = "cached"
                  /\ last'.ret = SOURCE_MODULES[t]
                  /\ last'.ret.checksum = Md5(t, VERSION)
                  /\ UNCHANGED <<pyc, src, FILE_MODULES, SOURCE_MODULES>>)
        /\ (TextCall(t) /\ last'.importModule = 1 /\ last'.outcome \in {"rebuilt", "cached"})
              => SOURCE_MODULES'[t] = last'.ret
        /\ SOURCE_MODULES[t] # NoModule
              => (SOURCE_MODULES'[t] = SOURCE_MODULES[t] \/ FreshProcess)]_vars

\* a text-backed call has just been answered from SOURCE_MODULES
C1_Witness ==
    /\ last.kind = "text"
    /\ last.outcome = "cached"
    /\ last.ret = SOURCE_MODULES[last.sourcetext[1]]
    /\ last.ret # NoModule

\* C2: when n.pyc is a complete artifact of an earlier rebuild, built from
\* the text n.prep still holds and not older than preppyTime, a file-backed
\* getModule call with force = 0 returns that artifact without rebuilding.
C2_ReusesPersisted ==
    [][\A n \in Names :
        (/\ FileCall(n)
         /\ last'.force = 0
         /\ src[n] # <<>>
         /\ LoadOk(pyc[n])
         /\ PersistedChecksum(pyc[n]) = Md5(src[n][1], VERSION)
         /\ EmbeddedTimestamp(pyc[n]) >= preppyTime)
        => (/\ last'.outcome = "uptodate"
            /\ last'.ret.checksum = PersistedChecksum(pyc[n])
            /\ pyc' = pyc)]_vars

\* C3: a file-backed call that finds a persisted artifact whose checksum
\* differs from the checksum of the current source rebuilds; the checksum of
\* whatever a file-backed call builds or reuses is Md5 of the current text
\* and VERSION alone, so it equals the checksum of any artifact of the same
\* text and compiler version that FILE_MODULES still holds.
C3_StaleByContent ==
    [][\A n \in Names : \A t \in Texts :
        (FileCall(n) /\ src[n] = <<t>>)
        => /\ (LoadOk(pyc[n]) /\ PersistedChecksum(pyc[n]) # Md5(t, VERSION))
                 => last'.outcome = (IF Malformed(t) THEN "compile-error" ELSE "rebuilt")
           /\ last'.outcome \in {"rebuilt", "uptodate"}
                 => /\ last'.ret.checksum = Md5(t, VERSION)
                    /\ (/\ FILE_MODULES[n] # NoModule
                        /\ TextOf(FILE_MODULES[n].checksum) = t
                        /\ VersionOf(FILE_MODULES[n].checksum) = VERSION)
                          => last'.ret.checksum = FILE_MODULES[n].checksum
           /\ (last'.outcome = "rebuilt" /\ pyc'[n] # pyc[n])
                 => (LoadOk(pyc'[n]) /\ PersistedChecksum(pyc'[n]) = Md5(t, VERSION))]_vars

\* a rebuild of the reverted text has returned the checksum of the original
\* build, which FILE_MODULES still holds, while n.pyc holds the artifact of
\* the edited text
C3_Witness ==
    \E n \in Names :
        /\ last.kind = "file"
        /\ last.name = n
        /\ last.outcome = "rebuilt"
        /\ FILE_MODULES[n] = last.ret
        /\ last.importModule = 0
        /\ LoadOk(pyc[n])
        /\ PersistedChecksum(pyc[n]) # last.ret.checksum

\* C4: while n.pyc starts with anything but the magic number of the host
\* runtime, a file-backed call behaves as if n.pyc were absent: it never
\* returns the file's module; it rebuilds from n.prep, or raises when
\* n.prep is missing or is rejected by the compiler.
C4_ForeignTagIsAbsent ==
    [][\A n \in Names :
        (/\ FileCall(n)
         /\ pyc[n].exists
         /\ (Len(pyc[n].data) = 0 \/ pyc[n].data[1] # Word(MAGIC_NUMBER)))
        => /\ last'.outcome \notin {"uptodate", "nosource"}
           /\ src[n] = <<>> => (last'.outcome = "error" /\ pyc' = pyc)
           /\ src[n] # <<>> =>
                 IF Malformed(src[n][1])
                 THEN last'.outcome = "compile-error" /\ pyc' = pyc
                 ELSE /\ last'.outcome = "rebuilt"
                      /\ last'.ret = NewModule(n, Md5(src[n][1], VERSION))]_vars

\* a file-backed call has rebuilt although n.pyc, which it left alone,
\* is a complete artifact carrying another runtime's magic number
C4_Witness ==
    \E n \in Names :
        /\ last.kind = "file"
        /\ last.name = n
        /\ last.outcome = "rebuilt"
        /\ pyc[n].exists
        /\ Len(pyc[n].data) >= 1
        /\ pyc[n].data[1] = Word(ForeignMagic)

\* C5: a loadable n.pyc whose embedded build timestamp is older than the
\* compiler's last modification is stale: no file-backed call returns it.
C5_StaleByCompiler ==
    [][\A n \in Names :
        (/\ FileCall(n)
         /\ LoadOk(pyc[n])
         /\ EmbeddedTimestamp(pyc[n]) < compilerMtime)
        => last'.outcome \notin {"uptodate", "nosource"}]_vars

\* C6: a getModule call with force set never returns an artifact it did not
\* just recompile.
C6_ForceRecompiles ==
    (last.kind # "none" /\ last.force = 1)
        => last.outcome \notin {"cached", "uptodate", "nosource"}

\* C7: a file-backed call that finds neither n.prep nor a module for n.pyc
\* raises the ValueError naming the source path and the module name, and
\* leaves the disk and both caches as they were.
C7_MissingSourceRaises ==
    [][\A n \in Names :
        (FileCall(n) /\ src[n] = <<>> /\ rl_get_module(n) = NoModule)
        => (/\ last'.outcome = "error"
            /\ last'.err = <<"ValueError", SourceFileName(n), n>>
            /\ last'.ret = NoModule
            /\ UNCHANGED <<pyc, src, FILE_MODULES, SOURCE_MODULES>>)]_vars

\* a file-backed call has just raised for want of source and artifact
C7_Witness ==
    \E n \in Names :
        /\ last.kind = "file"
        /\ last.name = n
        /\ last.outcome = "error"
        /\ src[n] = <<>>
        /\ ~LoadOk(pyc[n])

\* the file is exactly what one rebuild writes from open to close
CompleteArtifact(f) ==
    /\ f.exists
    /\ \E ts \in 1..MaxTime, t \in Texts, v \in 1..MaxVersion :
          /\ ~Malformed(t)
          /\ f.data = PycImage(ts, SizeOf(t), Md5(t, v))

HasValidTag(f) == f.exists /\ Len(f.data) >= 1 /\ f.data[1] = Word(MAGIC_NUMBER)

\* C8: whatever the interleaving of two callers persisting the same name,
\* a file n.pyc that starts with the host's magic number is the complete
\* output of one of them.
C8_TaggedIsComplete ==
    \A n \in Names : HasValidTag(pyc[n]) => CompleteArtifact(pyc[n])

\* C9: at every step of a rebuild's persistence the file n.pyc, once it
\* exists, is a complete artifact: the previous one or the new one.
C9_AtomicPublish ==
    \A n \in Names : pyc[n].exists => CompleteArtifact(pyc[n])

\* what is left of s after its leading run of whitespace-class characters
\* and, when a line feed ends that run, after that line feed
AfterFirstLineBreak(s) ==
    LET k == MatchLen(Wsc, s) IN
    IF k < Len(s) /\ s[k + 1] = NL
    THEN SubSeq(s, k + 2, Len(s))
    ELSE SubSeq(s, k + 1, Len(s))

\* C10: dnl sets ws to 1 and returns the empty text; the literal written
\* next comes out without its leading whitespace run and without the line
\* feed that ends the run, the rest intact, and ws is 0 again.
C10_DnlSuppressesToNewline ==
    /\ wsCall.op = "dnl" => (ws = 1 /\ wsCall.ret = <<>>)
    /\ (wsCall.op = "c" /\ wsCall.was = 1)
          => (/\ ~wsCall.raised
              /\ wsCall.ret = AfterFirstLineBreak(wsCall.arg)
              /\ ws = 0)

\* s is what is left of lit after a leading run of characters of class,
\* and the run is as long as it can be
StripsLeadingRun(class, lit, s) ==
    \E k \in 0..Len(lit) :
        /\ s = SubSeq(lit, k + 1, Len(lit))
        /\ \A i \in 1..k : lit[i] \in class
        /\ s # <<>> => s[1] \notin class

\* C11, as stated: dws sets ws to 2; the literal written next loses its
\* leading run of the class that dnl strips (wsc, which has no line feed),
\* whether or not a line feed follows, and ws is 0 again.
C11_DwsStripsSameClass ==
    /\ wsCall.op = "dws" => ws = 2
    /\ (wsCall.op = "c" /\ wsCall.was = 2)
          => (/\ ~wsCall.raised
              /\ StripsLeadingRun(Wsc, wsCall.arg, wsCall.ret)
              /\ ws = 0)

\* C11, amended: dws sets ws to 2 and returns the empty text; the literal
\* written next loses its whole leading run of wsc characters and line
\* feeds, the rest is intact, nothing is raised, and ws is 0 again.
C11_DwsStripsThroughLineFeeds ==
    /\ wsCall.op = "dws" => (ws = 2 /\ wsCall.ret = <<>>)
    /\ (wsCall.op = "c" /\ wsCall.was = 2)
          => (/\ ~wsCall.raised
              /\ StripsLeadingRun(Wsc \cup {NL}, wsCall.arg, wsCall.ret)
              /\ ws = 0)

\* after dws a literal that starts with blanks and line feeds has come out
\* without them and with the rest intact
C11_Witness ==
    /\ wsCall.op = "c"
    /\ wsCall.was = 2
    /\ wsCall.arg = <<SP, NL, SP, X, SP>>
    /\ wsCall.ret = <<X, SP>>
    /\ ws = 0

\* C12: ws is 0 after every c(s) and after every x(s); a literal written
\* when the call before it was neither dnl nor dws comes out unchanged,
\* without raising.
C12_OneShot ==
    [][/\ wsCall'.op \in {"c", "x"} => ws' = 0
       /\ (wsCall'.op = "c" /\ wsCall.op \notin {"dnl", "dws"})
             => (/\ wsCall'.was = 0
                 /\ ~wsCall'.raised
                 /\ wsCall'.ret = wsCall'.arg)]_vars

\* a literal with leading and trailing blanks and a line feed has passed
\* through c unchanged
C12_Witness ==
    /\ wsCall.op = "c"
    /\ wsCall.was = 0
    /\ wsCall.arg = <<SP, NL, X, SP>>
    /\ wsCall.ret = wsCall.arg
    /\ ws = 0

\* the lexer's state after the first i atoms of a text it has not rejected
\* so far: inside a tag when the last delimiter among them is {{
InsideTag(text, i) ==
    \E j \in 1..i :
        /\ text[j] = STARTDELIMITER
        /\ \A k \in (j + 1)..i : text[k] \notin {STARTDELIMITER, ENDDELIMITER}

\* the lexer raised: compile() failed with a SyntaxError and no tokens
LexerRejected == P.phase = "error" /\ P.err[1] = "SyntaxError" /\ P._tokens = <<>>

\* C19: the lexer has two states, inside and outside a tag; it raises, and
\* produces no tokens, whenever {{ occurs inside a tag and whenever the
\* text ends inside a tag
C19_LexerRejectsOpenTags ==
    P.phase # "none" =>
        ((\/ \E i \in 1..Len(source) : source[i] = STARTDELIMITER /\ InsideTag(source, i - 1)
          \/ InsideTag(source, Len(source)))
            => LexerRejected)

C19_Witness ==
    /\ source = <<STARTDELIMITER, "a", STARTDELIMITER, ENDDELIMITER>>
    /\ P.phase = "error"
    /\ P.err = LexError(<<"Unexpected {{">>, 2)

\* atoms i..j of the text are a tag: {{, no delimiter, }}
IsTag(text, i, j) ==
    /\ i < j
    /\ text[i] = STARTDELIMITER
    /\ text[j] = ENDDELIMITER
    /\ \A k \in (i + 1)..(j - 1) : text[k] \notin {STARTDELIMITER, ENDDELIMITER}

\* what __tokenize hands to _s.match for the tag at atoms i..j
TagBody(text, i, j) == SubSeq(text, i + 1 + WsRun(text, i), j - 1)

\* the tag is a parameter signature, def(...)
IsSignature(body) == Match_s(body).alt = "def"

\* C20: a template has at most one def(...) and it is the first directive:
\* the lexer rejects a def(...) that comes after any other tag, a first
\* def(...) included, so in the tokens of an accepted template only
\* literal text comes before a def
C20_OneDefAndFirst ==
    P.phase # "none" =>
        /\ \A k \in 1..Len(source) : \A l \in (k + 1)..Len(source) :
              (/\ IsTag(source, k, l)
               /\ IsSignature(TagBody(source, k, l))
               /\ \E i \in 1..(k - 1) : \E j \in (i + 1)..(k - 1) : IsTag(source, i, j))
                  => LexerRejected
        /\ \A m \in 1..Len(P._tokens) :
              P._tokens[m].kind \in {"def", "def "}
                  => \A h \in 1..(m - 1) : P._tokens[h].kind = "const"

C20_Witness ==
    /\ source = Tag(<<"def", "(", "a", ")">>) \o Tag(<<"def", "(", "a", ")">>)
    /\ P.phase = "error"
    /\ P.err[2] = <<"Only one def may be used">>

\* C18: a header that opens a body may be written with a trailing colon
\* or without: the two templates are both accepted or both rejected, and
\* accepted they have the same statement tree
C18_ColonIsOptional ==
    P.phase # "none" =>
        LET plain == Compiled(WithoutColons(source)) IN
        /\ P.phase = plain.phase
        /\ P.phase = "compiled" => Shape(P.nodes) = Shape(plain.nodes)

\* C15: __get_conv__ always returns two functions; a function that was
\* supplied is returned unchanged; the function derived from the only one
\* supplied returns the kind of string (bytes or text) that one returns;
\* with none supplied both return the kind of the template source
C15_QuoteFallback ==
    ran.kind = "get_conv" =>
        /\ ran.ret[1] # NoFunc /\ ran.ret[2] # NoFunc
        /\ ran.qf # NoFunc => ran.ret[1] = ran.qf
        /\ ran.lqf # NoFunc => ran.ret[2] = ran.lqf
        /\ (ran.qf # NoFunc /\ ran.lqf = NoFunc)
              => (ReturnsBytes(ran.ret[2]) <=> ReturnsBytes(ran.qf))
        /\ (ran.lqf # NoFunc /\ ran.qf = NoFunc)
              => (ReturnsBytes(ran.ret[1]) <=> ReturnsBytes(ran.lqf))
        /\ (ran.qf = NoFunc /\ ran.lqf = NoFunc)
              => (ReturnsBytes(ran.ret[1]) <=> ran.b) /\ (ReturnsBytes(ran.ret[2]) <=> ran.b)

C15_Witness ==
    /\ ran.kind = "get_conv"
    /\ ran.qf = "QB" /\ ran.lqf = NoFunc /\ ~ran.b
    /\ ran.ret = <<"QB", "asUtf8">>

\* what the pieces of an output were made from, in the order written
Pieces(out) == [j \in 1..Len(out) |-> out[j].arg]

\* a run that returned
Returned(kind) == ran.kind = kind /\ ran.raised = ""

\* C13, as stated: a run of {{for i in ()}}X{{else}}Y{{endfor}} writes Y, and
\* a run of {{for i in (1,)}}X{{else}}Y{{endfor}} writes X and no Y.
C13_ElseOnlyWhenEmpty ==
    Returned("run") =>
        /\ source = ForElse("()", FALSE) => Pieces(ran.out) = <<Str(<<"Y">>)>>
        /\ source = ForElse("(1,)", FALSE) => Pieces(ran.out) = <<Str(<<X>>)>>

\* C13, amended: a run of {{for i in ()}}X{{else}}Y{{endfor}} writes Y, and
\* a run of {{for i in (1,)}}X{{else}}Y{{endfor}} writes X and then Y: the
\* else body runs when the loop ends without a break.
C13_ElseUnlessBreak ==
    Returned("run") =>
        /\ source = ForElse("()", FALSE) => Pieces(ran.out) = <<Str(<<"Y">>)>>
        /\ source = ForElse("(1,)", FALSE) => Pieces(ran.out) = <<Str(<<X>>), Str(<<"Y">>)>>

C13_Witness ==
    /\ Returned("run")
    /\ source = ForElse("(1,)", FALSE)
    /\ Pieces(ran.out) = <<Str(<<X>>), Str(<<"Y">>)>>

\* a key that is a Python identifier (and no keyword)
IsIdentifier(k) == Len(k) = 1 /\ k[1] \in IdentifierAtoms \ PyKeywords

\* the call left the local name bound to value
BoundTo(name, value) ==
    /\ name \in DOMAIN ran.locals
    /\ ran.locals[name].t = value.t
    /\ ran.locals[name].v = value.v

\* C17: when a plain template is run, a key of the dictionary is a local of
\* the template's code, bound to the key's value, if and only if it is an
\* identifier and not a reserved name; any other key makes no local, raises
\* nothing and is still found through dictionary[key].
C17_IdentifierKeysExposed ==
    (ran.kind = "run" /\ P._defSeen # 1) =>
        \A j \in 1..Len(ran.args) :
            IF IsIdentifier(ran.args[j].key) /\ ran.args[j].key[1] \notin ReservedNames
            THEN BoundTo(ran.args[j].key[1], ran.args[j].value)
            ELSE /\ \A n \in DOMAIN ran.locals : ~BoundTo(n, ran.args[j].value)
                 /\ BoundTo("dictionary", Internal("dictionary"))

\* a template whose code is literal text and expression directives only
StraightLine(nodes) == \A j \in 1..Len(nodes) : nodes[j].type \in {"write", "swrite"}

\* the arguments of a call of get fit the signature F: Python binds them
\* and, without a ** collector, no keyword is left over
Matches(F, pos, kw) ==
    /\ Bound(F, pos, kw).err = ""
    /\ F.kwarg = "" => kw \subseteq Declared(F)

\* the call went through the template's code to its end: a run that
\* raised nothing, a get whose arguments fit the signature
Executed ==
    \/ Returned("run")
    \/ ran.kind = "get" /\ Matches(P._fnc_defn[1].args, ran.args, ran.kwds)

\* C16: an execution of a template of literal text and expression
\* directives hands over one piece for each of them, in the order of the
\* template: the l-quote function applied to the text of a literal, the
\* quote function applied to the value of an expression; run passes the
\* pieces to the sink and get returns them joined.
C16_QuotedInTemplateOrder ==
    (ran.kind \in {"run", "get"} /\ Executed /\ StraightLine(P.nodes)) =>
        /\ ran.raised = ""
        /\ Len(ran.out) = Len(P.nodes)
        /\ \A j \in 1..Len(ran.out) :
              IF P.nodes[j].type = "write"
              THEN /\ ran.out[j].f = ran.pair[2]
                   /\ ran.out[j].arg.t = "str"
              ELSE /\ ran.out[j].f = ran.pair[1]
                   /\ IF P.nodes[j].value[1] = "__wss__" THEN ran.out[j].arg.t = "ignore"
                      ELSE /\ ran.out[j].arg.t = ran.locals[P.nodes[j].value[1]].t
                           /\ ran.out[j].arg.v = ran.locals[P.nodes[j].value[1]].v

\* C14: a call of get whose arguments fit the signature of the template,
\* whatever __quoteFunc__ and __lquoteFunc__ it passes, raises nothing and
\* returns the text of the template ({{def(a)}}Hello{{a}} called with 1 or
\* with a=1 returns Hello and 1); a call with a required argument missing,
\* a positional argument too many or, without a ** collector, a keyword
\* that is not declared raises TypeError and returns nothing.
C14_SignatureChecked ==
    ran.kind = "get" =>
        IF Matches(P._fnc_defn[1].args, ran.args, ran.kwds)
        THEN /\ ran.raised = ""
             /\ Len(ran.out) = Len(P.nodes)
             /\ source = Tag(<<"def", "(", "a", ")">>) \o <<"Hello">> \o Tag(<<"a">>)
                    => Pieces(ran.out) = <<Str(<<"Hello">>), PyInt(1)>>
        ELSE /\ ran.raised = "TypeError"
             /\ ran.out = <<>>

\* ------------------------------------- statements that need an enclosure
\* the blocks a statement is nested in: a loop, the else of a loop, a named
\* sub-block, an if
NestKinds == {"for", "while", "tdef", "if", "forelse", "whileelse"}

\* the tag that opens a block of kind k
OpenTag(k) ==
    CASE k \in {"for", "forelse"} -> Tag(<<"for", SP, "i", SP, "in", SP, "(1,)">>)
      [] k \in {"while", "whileelse"} -> Tag(<<"while", SP, "n">>)
      [] k = "tdef" -> Tag(<<"def", SP, "f", "(", "a", ")">>)
      [] k = "if" -> Tag(<<"if", SP, "a">>)

\* the tag that closes it
CloseTag(k) ==
    CASE k \in {"for", "forelse"} -> Tag(<<"endfor">>)
      [] k \in {"while", "whileelse"} -> Tag(<<"endwhile">>)
      [] k = "tdef" -> Tag(<<"enddef">>)
      [] k = "if" -> Tag(<<"endif">>)

RECURSIVE Nest(_, _)
\* the blocks ks, each in the one before it, around the text inner; for
\* forelse and whileelse the inner text is the else of the loop
Nest(ks, inner) ==
    IF ks = <<>> THEN inner
    ELSE OpenTag(Head(ks))
            \o (IF Head(ks) \in {"forelse", "whileelse"} THEN <<X>> \o Tag(<<"else">>) ELSE <<>>)
            \o Nest(Tail(ks), inner)
            \o CloseTag(Head(ks))

\* return, break and continue, alone or with something after the keyword
NestedStatements ==
    {Tag(<<"return">>), Tag(<<"return", SP, "a">>), Tag(<<"break">>), Tag(<<"continue">>),
     Tag(<<"break", SP, "a">>), Tag(<<"continue", SP, "a">>)}

\* a plain or a callable template with one such statement, inside nested
\* blocks or after them
NestTemplates ==
    {pre \o (IF inside THEN Nest(ks, <<"y">> \o st) ELSE Nest(ks, <<"y">>) \o st) :
        pre \in {<<>>, Tag(<<"def", "(", "a", ")">>)},
        ks \in UNION {[1..d -> NestKinds] : d \in 0..MaxDepth},
        st \in NestedStatements,
        inside \in BOOLEAN}

InitNest == InitTemplate(NestTemplates)

NextNest == compile

SpecNest == InitNest /\ [][NextNest]_vars

\* the keyword of the tag that starts at atom i of the text
TagKeyword(text, i) == IF i < Len(text) THEN text[i + 1] ELSE ""

\* the kind of block the tag at atom i opens, "" if it opens none
Opens(text, i) ==
    CASE text[i] # STARTDELIMITER -> ""
      [] TagKeyword(text, i) \in {"for", "while", "if", "with", "try"} -> TagKeyword(text, i)
      [] TagKeyword(text, i) = "def" /\ text[i + 2] = SP -> "tdef"
      [] OTHER -> ""

\* the tag at atom i closes a block
Closes(text, i) ==
    /\ text[i] = STARTDELIMITER
    /\ TagKeyword(text, i) \in {"endfor", "endwhile", "endif", "endwith", "endtry", "enddef"}

\* the stack s of open blocks after the atom at
AfterAtom(text, at, s) ==
    IF Opens(text, at) # "" THEN Append(s, Opens(text, at))
    ELSE IF Closes(text, at) /\ s # <<>> THEN SubSeq(s, 1, Len(s) - 1)
    ELSE s

RECURSIVE OpenBlocks(_, _)
\* the blocks of the text that are open after its first k atoms, outermost
\* first
OpenBlocks(text, k) ==
    IF k = 0 THEN <<>> ELSE AfterAtom(text, k, OpenBlocks(text, k - 1))

\* the blocks are those of a statement inside a named sub-block
InSubBlock(blocks) == \E j \in 1..Len(blocks) : blocks[j] = "tdef"

\* the blocks are those of a statement inside a loop, with no named
\* sub-block between the loop and the statement
InLoop(blocks) ==
    \E j \in 1..Len(blocks) :
        /\ blocks[j] \in {"for", "while"}
        /\ \A k \in (j + 1)..Len(blocks) : blocks[k] # "tdef"

\* the atoms of the source where a tag with the keyword kw starts
TagsOf(kw) ==
    {i \in 1..Len(source) : source[i] = STARTDELIMITER /\ TagKeyword(source, i) = kw}

\* the template starts with def(...)
IsCallable == Len(source) >= 3 /\ source[1] = STARTDELIMITER /\ source[2] = "def" /\ source[3] = "("

Parsed == P.phase # "none"

Accepted == P.phase = "compiled"

Rejected == P.phase = "error" /\ P.err[1] = "SyntaxError"

ExactTag(i) == source[i + 2] = ENDDELIMITER

\* the break and continue tags of the source
LoopExits == TagsOf("break") \cup TagsOf("continue")

\* C22: a template with a break or continue directive is accepted only
\* when the directive is the keyword alone and stands between the opening
\* and the end tag of a for or while loop, with no named sub-block opened
\* between the loop and the directive; any other template with such a
\* directive is rejected with a syntax error.  The parser of a plain
\* template accepts every directive that meets both conditions.
C22_BreakNeedsLoop ==
    (Parsed /\ LoopExits # {}) =>
        \A i \in LoopExits :
            IF ExactTag(i) /\ InLoop(OpenBlocks(source, i))
            THEN ~IsCallable => Accepted
            ELSE Rejected

C22_Witness ==
    /\ Rejected
    /\ \E i \in TagsOf("break") :
          /\ ExactTag(i)
          /\ OpenBlocks(source, i) = <<"for", "tdef">>

\* ---------------------------------------------------- try and its clauses
\* the clauses of a try: a bare except, an except with a pattern, else,
\* finally
ClauseKinds == {"except", "exceptE", "else", "finally"}

\* the tag of a clause
ClauseTag(k) ==
    IF k = "exceptE" THEN Tag(<<"except", SP, "Exception">>) ELSE Tag(<<k>>)

RECURSIVE ClauseText(_, _)
\* the clauses ks, each followed by the body b
ClauseText(ks, b) ==
    IF ks = <<>> THEN <<>> ELSE ClauseTag(Head(ks)) \o b \o ClauseText(Tail(ks), b)

\* a plain or a callable template that is one try: its body and the body
\* of every clause are b, nothing or a literal
TryTemplates ==
    {pre \o Tag(<<"try">>) \o b \o ClauseText(ks, b) \o Tag(<<"endtry">>) :
        pre \in {<<>>, Tag(<<"def", "(", "a", ")">>)},
        b \in {<<>>, <<"y">>},
        ks \in UNION {[1..d -> ClauseKinds] : d \in 0..MaxClauses}}

\* one block of each other kind, its body b and, where it has one, its
\* else e
BlockTemplates ==
    UNION {{Tag(<<"if", SP, "a">>) \o b \o Tag(<<"elif", SP, "b">>) \o b \o Tag(<<"else">>) \o e
                \o Tag(<<"endif">>),
            Tag(<<"if", SP, "a">>) \o b \o Tag(<<"endif">>),
            OpenTag("for") \o b \o Tag(<<"else">>) \o e \o CloseTag("for"),
            OpenTag("while") \o b \o Tag(<<"else">>) \o e \o CloseTag("while"),
            OpenTag("for") \o b \o CloseTag("for"),
            Tag(<<"with", SP, "a">>) \o b \o Tag(<<"endwith">>),
            OpenTag("tdef") \o b \o CloseTag("tdef")} :
        b \in {<<>>, <<"y">>}, e \in {<<>>, <<"y">>}}

InitBlocks == InitTemplate(TryTemplates \cup BlockTemplates)

NextBlocks == compile

SpecBlocks == InitBlocks /\ [][NextBlocks]_vars

\* the kind of the clause whose tag starts at atom i of the text
ClauseAt(text, i) ==
    IF TagKeyword(text, i) = "except" /\ text[i + 2] # ENDDELIMITER THEN "exceptE"
    ELSE TagKeyword(text, i)

RECURSIVE ClausesFrom(_, _)
\* the clauses of the text from its atom i on, in the order written
ClausesFrom(text, i) ==
    IF i > Len(text) THEN <<>>
    ELSE IF text[i] = STARTDELIMITER /\ TagKeyword(text, i) \in {"except", "else", "finally"}
    THEN <<ClauseAt(text, i)>> \o ClausesFrom(text, i + 1)
    ELSE ClausesFrom(text, i + 1)

\* the source is one try
IsTry == TagsOf("try") # {}

\* the clauses are in order: excepts, a bare one only as the last of
\* them, then at most one else, then at most one finally
InOrder(ks) ==
    \A i, j \in 1..Len(ks) :
        i < j =>
            /\ ks[i] = "except" => ks[j] \in {"else", "finally"}
            /\ ks[i] = "else" => ks[j] = "finally"
            /\ ks[i] # "finally"

\* C23: a try whose clauses are not in the order excepts (a bare except
\* last), then at most one else, then at most one finally, is rejected with
\* a syntax error.
C23_ClausesInOrder ==
    (Parsed /\ IsTry /\ ~InOrder(ClausesFrom(source, 1))) => Rejected

C23_Witness ==
    /\ Rejected
    /\ IsTry
    /\ ClausesFrom(source, 1) = <<"exceptE", "else", "exceptE">>

\* the number of excepts among the clauses
Excepts(ks) == Cardinality({j \in 1..Len(ks) : ks[j] \in {"except", "exceptE"}})

\* the tree is one try node with a body of one node and a handler for
\* each except among the clauses ks
IsTryNode(nodes, ks) ==
    /\ Len(nodes) = 1
    /\ nodes[1].type = "Try"
    /\ Len(nodes[1].body) = 1
    /\ nodes[1].body[1].type \in {"write", "Pass"}
    /\ Len(nodes[1].handlers) = Excepts(ks)

ElseBody(n) ==
    IF n.type = "If" /\ TagsOf("elif") # {} THEN n.orelse[1].orelse ELSE Field(n, "orelse")

\* C25: in the tree of an accepted template that is one block, no body is
\* an empty list: not the body of the block, of its elif or of a handler,
\* not its else body when the block has an else tag, not its finally body
\* when it has a finally tag.
C25_NoEmptyBody ==
    (Accepted /\ Len(P.nodes) = 1) =>
        /\ Field(P.nodes[1], "body") # <<>>
        /\ \A j \in 1..Len(Field(P.nodes[1], "handlers")) : P.nodes[1].handlers[j].body # <<>>
        /\ TagsOf("elif") # {} => P.nodes[1].orelse[1].body # <<>>
        /\ TagsOf("else") # {} => ElseBody(P.nodes[1]) # <<>>
        /\ TagsOf("finally") # {} => P.nodes[1].finalbody # <<>>

\* ------------------------------------------------- positions of the nodes
\* texts of several lines: a line feed, a literal, an expression, an if
\* and a for with their else and end tags
PositionChunks ==
    {<<NL>>, <<X>>, Tag(<<"a">>), Tag(<<"if", SP, "a">>), Tag(<<"else">>), Tag(<<"endif">>),
     OpenTag("for"), CloseTag("for")}

InitPositions == InitTemplate(Joined(PositionChunks, MaxLexChunks))

NextPositions == compile

SpecPositions == InitPositions /\ [][NextPositions]_vars

RECURSIVE PreOrder(_)
\* the nodes of a tree, each before the nodes below it
PreOrder(nodes) ==
    IF nodes = <<>> THEN <<>>
    ELSE <<Head(nodes)>> \o PreOrder(Children(Head(nodes))) \o PreOrder(Tail(nodes))

\* the nodes made of a literal or a directive: not the placeholder of an
\* empty body
OfText(nodes) == SelectSeq(nodes, LAMBDA n : n.type # "Pass")

\* the tokens a node is made of
NodeTokens(tokens) ==
    SelectSeq(tokens, LAMBDA t : t.kind \in {"const", "expr", "if", "for"})

\* the number of atoms of the text before its line l
LineStart(text, l) ==
    IF l = 1 THEN 0
    ELSE CHOOSE k \in 1..Len(text) :
            /\ text[k] = NL
            /\ Cardinality({j \in 1..k : text[j] = NL}) = l - 1

\* the number of atoms of the text before line l, column col
Offset(text, l, col) == LineStart(text, l) + col

\* the atoms a node of type ty starts with
FirstAtoms(ty) ==
    CASE ty = "write" -> {X, NL}
      [] ty = "swrite" -> {"a"}
      [] ty = "If" -> {"if"}
      [] ty = "For" -> {"for"}

C27_FilterNeverRaises ==
    wsCall.op = "c" =>
        /\ ~wsCall.raised
        /\ ws = 0
        /\ (wsCall.was = 1 /\ \A i \in 1..Len(wsCall.arg) : wsCall.arg[i] \in Wsc)
              => wsCall.ret = <<>>

\* ---------------------------------------------- blocks left open at the end
\* the blocks with an end tag of their own
UnclosedKinds == {"if", "for", "while", "try", "with", "tdef", "script", "eval"}

\* the tag that opens a block of kind k, and the tag that closes it
BlockOpen(k) ==
    CASE k \in {"if", "for", "while", "tdef"} -> OpenTag(k)
      [] k = "try" -> Tag(<<"try">>)
      [] k = "with" -> Tag(<<"with", SP, "a">>)
      [] k = "script" -> Tag(<<"script">>)
      [] k = "eval" -> Tag(<<"eval">>)

BlockClose(k) ==
    CASE k \in {"if", "for", "while", "tdef"} -> CloseTag(k)
      [] k = "try" -> Tag(<<"except">>) \o Tag(<<"endtry">>)
      [] k = "with" -> Tag(<<"endwith">>)
      [] k = "script" -> Tag(<<"endscript">>)
      [] k = "eval" -> Tag(<<"endeval">>)

RECURSIVE Opened(_, _, _)
\* the blocks ks opened one in the other with the text b after each opening
\* tag, of which the innermost closed are closed again
Opened(ks, b, closed) ==
    IF ks = <<>> THEN <<>>
    ELSE BlockOpen(Head(ks)) \o b \o Opened(Tail(ks), b, closed)
            \o (IF Len(ks) <= closed THEN BlockClose(Head(ks)) ELSE <<>>)

\* plain and callable templates of nested blocks, all, some or none of
\* them closed
UnclosedTemplates ==
    {pre \o Opened(ks, b, closed) :
        pre \in {<<>>, <<X>>, Tag(<<"def", "(", "a", ")">>)},
        ks \in UNION {[1..d -> UnclosedKinds] : d \in 1..MaxDepth},
        b \in {<<>>, <<"a">>},
        closed \in 0..MaxDepth}

InitUnclosed == InitTemplate(UnclosedTemplates)

NextUnclosed == compile

SpecUnclosed == InitUnclosed /\ [][NextUnclosed]_vars

\* the kind of block the tag at atom i opens, "" if it opens none
OpensBlock(text, i) ==
    CASE text[i] # STARTDELIMITER -> ""
      [] TagKeyword(text, i) \in {"script", "eval"} -> TagKeyword(text, i)
      [] OTHER -> Opens(text, i)

\* the tag at atom i is the end tag of a block of kind k
ClosesBlock(text, i, k) ==
    /\ text[i] = STARTDELIMITER
    /\ TagKeyword(text, i) = (IF k = "tdef" THEN "enddef" ELSE "end" \o k)

\* the stack s of open blocks after the atom at; inside a script or an
\* eval only its end tag counts
AfterBlockAtom(text, at, s) ==
    IF s # <<>> /\ s[Len(s)] \in {"script", "eval"}
    THEN IF ClosesBlock(text, at, s[Len(s)]) THEN SubSeq(s, 1, Len(s) - 1) ELSE s
    ELSE IF OpensBlock(text, at) # "" THEN Append(s, OpensBlock(text, at))
    ELSE IF s # <<>> /\ ClosesBlock(text, at, s[Len(s)]) THEN SubSeq(s, 1, Len(s) - 1)
    ELSE s

RECURSIVE Unclosed(_, _)
\* the blocks of the text that are open after its first k atoms
Unclosed(text, k) ==
    IF k = 0 THEN <<>> ELSE AfterBlockAtom(text, k, Unclosed(text, k - 1))

\* C28: the cursor never moves past the eof token, and a template that
\* leaves an if, for, while, try, with, named def, script or eval open at
\* the end of the text is rejected with a syntax error.
C28_UnclosedIsSyntaxError ==
    Parsed =>
        /\ P.phase = "error" => P.err[1] # "IndexError"
        /\ Unclosed(source, Len(source)) # <<>> => Rejected

\* ------------------------------------------------------- a failed rebuild
\* C29: a getModule whose rebuild raises while the template is compiled
\* leaves every .pyc as it was (none created, truncated or overwritten) and
\* leaves FILE_MODULES and SOURCE_MODULES as they were.
C29_FailedRebuildChangesNothing ==
    [][last'.outcome = "compile-error"
          => (pyc' = pyc /\ FILE_MODULES' = FILE_MODULES /\ SOURCE_MODULES' = SOURCE_MODULES)]_vars

\* a rebuild has failed on a changed source while an artifact of the
\* earlier source and its module were there
C29_Witness ==
    /\ last.outcome = "compile-error"
    /\ last.kind = "file"
    /\ LoadOk(pyc[last.name])
    /\ FILE_MODULES[last.name] # NoModule

\* ------------------------------------------------ one writer, many readers
\* the caller that rebuilds, the first of them; every caller may read
Writer == CHOOSE k \in Callers : \A j \in Callers : k <= j

NextOneWriter ==
    \/ WriteSource
    \/ Tick
    \/ \E k \in Callers : Reuse(k)
    \/ Compile(Writer)
    \/ Open(Writer)
    \/ WriteHeader(Writer)
    \/ DumpBody(Writer)
    \/ Spill(Writer)
    \/ Flush(Writer)
    \/ WriteMagic(Writer)
    \/ Close(Writer)
    \/ Finish(Writer)

SpecOneWriter == Init /\ [][NextOneWriter]_vars

\* caller k has opened its .pyc and not yet closed it
Persisting(k) == At(k, {"opened", "header", "dumped", "flushed", "magic"})

\* C30: with one writer, from the moment it opens n.pyc until the magic
\* number written last reaches the file, the file does not start with the
\* magic number and rl_get_module finds no module; whatever module a
\* reader is given at any moment comes from a complete artifact.
C30_NoPartialRead ==
    /\ \A k \in Callers :
          Persisting(k) => (/\ ~HasValidTag(pyc[caller[k].name])
                            /\ rl_get_module(caller[k].name) = NoModule)
    /\ \A n \in Names : rl_get_module(n) # NoModule => CompleteArtifact(pyc[n])

\* the whole body is in the file, the magic number is not, and a reader
\* was given the module of the previous artifact before
C30_Witness ==
    /\ At(Writer, {"flushed"})
    /\ UnmarshalOk(pyc[caller[Writer].name].data)
    /\ rl_get_module(caller[Writer].name) = NoModule
    /\ FILE_MODULES[caller[Writer].name] # NoModule
    /\ FILE_MODULES[caller[Writer].name].checksum # getMd5(caller[Writer].t)

====
